---- MODULE Spec2Model ----
(***************************************************************************)
(* Tiling and reconstruction functions of FIBSEM_EPFL/scripts/data.py:     *)
(* crop_data (grid cropper), crop_data_with_overlap (overlap tiler) and    *)
(* merge_data_with_overlap (overlap merger).                               *)
(*                                                                         *)
(* Arrays are functions over 0-based index tuples, as in numpy.  A volume  *)
(* [N, D1, D2, C] is modelled with one channel (C = 1), so it is a         *)
(* function over <<k, y, x>>; D1 is data.shape[1] and D2 is data.shape[2]. *)
(* Every loop of the source is one action per iteration of its body.       *)
(***************************************************************************)
EXTENDS Integers, Sequences, FiniteSets, TLC

VARIABLES
    pc,                 \* position in the called function
    err,                \* exception raised ("none" while running)
    data,               \* argument data (image volume)
    data_mask,          \* argument data_mask (mask volume), NoMask for None
    shape,              \* data.shape as <<shape[0], shape[1], shape[2]>>
    window_size,        \* argument window_size
    subdivision,        \* argument subdivision
    geo,                \* rows, columns, overlap, remainder, step locals
    cropped_data,       \* output tile array
    cropped_data_mask,  \* output mask tile array
    cont,               \* running tile counter
    it,                 \* current loop iteration <<img_num, i, j>>
    ov_map,             \* argument ov_map of the merger
    overlap_matrix,     \* per-pixel number of tiles
    ov_map_matrix,      \* diagnostic overlap map
    merged_data,        \* merged volume (exact rationals <<num, den>>)
    original_shape,     \* argument original_shape of the merger
    m_geo,              \* rows, columns, overlap, remainder, step of the merger
    crop_shape,         \* argument crop_shape of crop_data
    force_shape,        \* argument force_shape of crop_data
    h_num,              \* tiles along axis 1 (returned as force_shape[0])
    v_num,              \* tiles along axis 2 (returned as force_shape[1])
    d_percentage,       \* argument d_percentage of crop_data
    r_data,             \* zero padded copy of data
    r_data_mask,        \* zero padded copy of data_mask
    selected_images,    \* list of kept tile numbers
    discarded,          \* number of discarded tiles
    l_i,                \* index in selected_images
    mixed_data,         \* mosaic volume of merge_data_without_overlap
    num,                \* argument num of merge_data_without_overlap
    out_shape,          \* argument out_shape of merge_data_without_overlap
    grid,               \* argument grid of merge_data_without_overlap
    args,               \* arguments of the called function (record by name)
    ret,                \* values returned by the calls made so far
    self,               \* the ImageDataGenerator object (record of its fields)
    index,              \* argument index of __getitem__
    batch_x,            \* batch images being filled by __getitem__
    batch_y             \* batch masks being filled by __getitem__

vars == <<pc, err, data, data_mask, shape, window_size, subdivision, geo,
          cropped_data, cropped_data_mask, cont, it, ov_map, overlap_matrix,
          ov_map_matrix, merged_data, original_shape, m_geo, crop_shape, force_shape, h_num, v_num,
          d_percentage, r_data, r_data_mask, selected_images, discarded, l_i,
          mixed_data, num, out_shape, grid, args, ret, self, index, batch_x, batch_y>>

\* The variables of crop_data alone.
gridVars == <<crop_shape, force_shape, h_num, v_num, d_percentage, r_data,
              r_data_mask, selected_images, discarded, l_i>>

\* The variables of merge_data_without_overlap alone.
gmVars == <<mixed_data, num, out_shape, grid>>

\* The variables of random_crop, __foreground_percentage called alone and
\* of the ImageDataGenerator.
augVars == <<args, ret, self, index, batch_x, batch_y>>

\* The variables of the overlap tiler and merger alone.
ovVars == <<window_size, subdivision, geo, ov_map, overlap_matrix, ov_map_matrix,
            merged_data, original_shape, m_geo>>

(***************************************************************************)
(* Bounds of the explored inputs.                                          *)
(***************************************************************************)
MaxImages == 2
MaxDim == 6
MaxSubdivision == 12
MaxGridImages == 2
MaxGridDim == 3
MaxCrop == 2
MaxForce == 2
MaxImgDim == 3
MaxCropLen == 3
MaxCalls == 2
MaxSamples == 3
MaxBatch == 2
MaxGenDim == 2
MaxTile == 2

\* The number of calls of a function on the same arguments that are compared.
NumCalls == 2

(***************************************************************************)
(* Python / numpy primitives used by the source.                           *)
(***************************************************************************)
Abs(x) == IF x < 0 THEN -x ELSE x

Min(a, b) == IF a < b THEN a ELSE b

Max(a, b) == IF a > b THEN a ELSE b

\* range(0, stop, step) as the set of its values; range() raises on step 0,
\* which the callers test before using this.
Range(stop, step) == IF step > 0 THEN {x \in 0..(stop - 1) : x % step = 0} ELSE {}

\* Start and stop of the numpy basic slice a:b on an axis of length n
\* (negative bounds count from the end, both are clipped to the axis).
SliceStart(a, n) == IF a < 0 THEN Max(a + n, 0) ELSE Min(a, n)

SliceStop(b, n) == IF b < 0 THEN Max(b + n, 0) ELSE Min(b, n)

SliceLen(a, b, n) == Max(SliceStop(b, n) - SliceStart(a, n), 0)

SliceIdx(a, b, n) == {x \in 0..(n - 1) : SliceStart(a, n) <= x /\ x < SliceStop(b, n)}

\* An integer index on an axis of length n: valid in -n..n-1, negative wraps.
IndexOk(a, n) == -n <= a /\ a < n

Index(a, n) == IF a < 0 THEN a + n ELSE a

\* numpy broadcasting of one source axis of length src onto a target axis of
\* length dst, and the source index that lands on target index p.
Broadcastable(src, dst) == src = dst \/ src = 1

BroadcastIdx(p, src) == IF src = 1 THEN 0 ELSE p

RECURSIVE GCD(_, _)
GCD(a, b) == IF b = 0 THEN a ELSE GCD(b, a % b)

\* np.true_divide of an accumulated sum by a count, kept exact: <<num, den>>
\* in lowest terms, <<0, 0>> for 0/0 (nan) and <<1, 0>> for x/0 (inf).
TrueDivide(s, c) ==
    IF c = 0 THEN (IF s = 0 THEN <<0, 0>> ELSE <<1, 0>>)
    ELSE <<s \div GCD(s, c), c \div GCD(s, c)>>

NoMask == << >>

NoGeo == [rows |-> 0, columns |-> 0, y_ov |-> 0, r_y |-> 0, step_y |-> 0,
          x_ov |-> 0, r_x |-> 0, step_x |-> 0]

NoIter == <<0, 0, 0>>

Empty == << >>

maxsize == 2147483647

(***************************************************************************)
(* Arrays.                                                                 *)
(***************************************************************************)
VolDom(sh) == (0..(sh[1] - 1)) \X (0..(sh[2] - 1)) \X (0..(sh[3] - 1))

MatDom(h, w) == (0..(h - 1)) \X (0..(w - 1))

Zeros(dom) == [p \in dom |-> 0]

\* Input volumes: every pixel tagged with its own position, and a binary
\* checkerboard.
IndexVolume(sh) == [p \in VolDom(sh) |-> 1 + (p[1] * sh[2] * sh[3]) + (p[2] * sh[3]) + p[3]]

CheckerVolume(sh) == [p \in VolDom(sh) |-> (p[1] + p[2] + p[3]) % 2]

Volumes(sh) == {IndexVolume(sh), CheckerVolume(sh)}

(***************************************************************************)
(* Nested for loops: for img_num: for i in range(..): for j in range(..).  *)
(* The iterations are the triples <<img_num, i, j>> in lexicographic order.*)
(***************************************************************************)
Iters(n, stop_y, step_y, stop_x, step_x) ==
    (0..(n - 1)) \X Range(stop_y, step_y) \X Range(stop_x, step_x)

\* The order with the column loop outside the row loop.
Before_ColumnFirst(a, b) ==
    \/ a[1] < b[1]
    \/ a[1] = b[1] /\ a[3] < b[3]
    \/ a[1] = b[1] /\ a[3] = b[3] /\ a[2] < b[2]

Before(a, b) ==
    \/ a[1] < b[1]
    \/ a[1] = b[1] /\ a[2] < b[2]
    \/ a[1] = b[1] /\ a[2] = b[2] /\ a[3] < b[3]

FirstIter(S) == CHOOSE u \in S : \A v \in S : u = v \/ Before(u, v)

Rest(t, S) == {u \in S : Before(t, u)}

(***************************************************************************)
(* crop_data_with_overlap                                                  *)
(***************************************************************************)
\* The search with "<=" for "<": the last of the equally balanced pairs wins.
RECURSIVE LayoutSearch_LastTie(_, _, _)
LayoutSearch_LastTie(sub, i, st) ==
    IF i > sub \div 2 THEN st
    ELSE IF sub % i = 0 /\ Abs((sub \div i) - i) <= st.min_d
         THEN LayoutSearch_LastTie(sub, i + 1,
                  [min_d |-> Abs((sub \div i) - i), rows |-> i, columns |-> sub \div i])
         ELSE LayoutSearch_LastTie(sub, i + 1, st)

\* for i in range(1, int(subdivision/2)+1): keep the first i that divides
\* subdivision with a strictly smaller |subdivision/i - i|.
RECURSIVE LayoutSearch(_, _, _)
LayoutSearch(sub, i, st) ==
    IF i > sub \div 2 THEN st
    ELSE IF sub % i = 0 /\ Abs((sub \div i) - i) < st.min_d
         THEN LayoutSearch(sub, i + 1,
                  [min_d |-> Abs((sub \div i) - i), rows |-> i, columns |-> sub \div i])
         ELSE LayoutSearch(sub, i + 1, st)

FindLayout(sub) == LayoutSearch(sub, 1, [min_d |-> maxsize, rows |-> 1, columns |-> 1])

\* The asserts without the one on data.shape[2].
ArgChecks_NoHeightCheck(sh, ws, sub) ==
    /\ (sub % 2 = 0 \/ sub = 1)
    /\ ws <= sh[2]

\* The asserts on the arguments (before the layout is known).
ArgChecks(sh, ws, sub) ==
    /\ (sub % 2 = 0 \/ sub = 1)
    /\ ws <= sh[2]
    /\ ws <= sh[3]

\* The asserts on the layout.
LayoutChecks(sh, ws, sub, lay) ==
    sub # 1 => (ws * lay.rows >= sh[2] /\ ws * lay.columns >= sh[3])

\* Overlap, remainder and step per axis.
CropGeometry(sh, ws, lay) ==
    [rows    |-> lay.rows,
     columns |-> lay.columns,
     y_ov    |-> IF lay.rows # 1
                 THEN Abs(sh[2] - ws * lay.rows) \div (lay.rows - 1) ELSE 0,
     r_y     |-> IF lay.rows # 1
                 THEN Abs(sh[2] - ws * lay.rows) % (lay.rows - 1) ELSE 0,
     step_y  |-> IF lay.rows # 1
                 THEN ws - (Abs(sh[2] - ws * lay.rows) \div (lay.rows - 1)) ELSE sh[2],
     x_ov    |-> IF lay.columns # 1
                 THEN Abs(sh[3] - ws * lay.columns) \div (lay.columns - 1) ELSE 0,
     r_x     |-> IF lay.columns # 1
                 THEN Abs(sh[3] - ws * lay.columns) % (lay.columns - 1) ELSE 0,
     step_x  |-> IF lay.columns # 1
                 THEN ws - (Abs(sh[3] - ws * lay.columns) \div (lay.columns - 1)) ELSE sh[3]]

\* The iterations of the tiling loops of one call.
CropIters(sh, g) == Iters(sh[1], sh[2] - g.y_ov, g.step_y, sh[3] - g.x_ov, g.step_x)

\* d_y, d_x of one iteration and the region i-d_y:i+window_size, j-d_x:j+window_size.
CropRegion(sh, ws, g, t) ==
    LET d_y == IF t[2] + ws < sh[2] THEN 0 ELSE g.r_y
        d_x == IF t[3] + ws < sh[3] THEN 0 ELSE g.r_x
    IN [y0 |-> SliceStart(t[2] - d_y, sh[2]), ly |-> SliceLen(t[2] - d_y, t[2] + ws, sh[2]),
        x0 |-> SliceStart(t[3] - d_x, sh[3]), lx |-> SliceLen(t[3] - d_x, t[3] + ws, sh[3])]

\* The tile with its two axes swapped.
TileOf_Transposed(vol, k, reg, ws) ==
    [p \in MatDom(ws, ws) |->
        vol[<<k, reg.y0 + BroadcastIdx(p[2], reg.ly), reg.x0 + BroadcastIdx(p[1], reg.lx)>>]]

\* vol[k, region] broadcast to a window_size x window_size tile.
TileOf(vol, k, reg, ws) ==
    [p \in MatDom(ws, ws) |->
        vol[<<k, reg.y0 + BroadcastIdx(p[1], reg.ly), reg.x0 + BroadcastIdx(p[2], reg.lx)>>]]

ZeroTiles(n, ws) == [c \in 0..(n - 1) |-> Zeros(MatDom(ws, ws))]

\* The state of the variables a function does not use.
IdleOverlap ==
    /\ geo = NoGeo /\ cropped_data = Empty /\ cropped_data_mask = Empty
    /\ cont = 0 /\ it = NoIter
    /\ overlap_matrix = Empty /\ ov_map_matrix = Empty /\ merged_data = Empty
    /\ original_shape = <<0, 0>> /\ m_geo = NoGeo

IdleMerge ==
    /\ mixed_data = << >> /\ num = 0 /\ out_shape = <<0, 0>> /\ grid = FALSE

IdleAug ==
    /\ args = << >> /\ ret = << >> /\ self = << >> /\ index = 0
    /\ batch_x = << >> /\ batch_y = << >>

IdleGrid ==
    /\ crop_shape = <<0, 0>> /\ force_shape = <<0, 0>> /\ d_percentage = 0
    /\ h_num = 0 /\ v_num = 0
    /\ r_data = Empty /\ r_data_mask = Empty /\ selected_images = << >>
    /\ discarded = 0 /\ l_i = 0

\* A call crop_data_with_overlap(data, data_mask, window_size, subdivision),
\* later followed by merge_data_with_overlap on the returned tiles.
InitOverlap ==
    /\ pc = "ov_call"
    /\ err = "none"
    /\ shape \in (1..MaxImages) \X (1..MaxDim) \X (1..MaxDim)
    /\ data \in Volumes(shape)
    /\ data_mask = CheckerVolume(shape)
    /\ window_size \in 1..MaxDim
    /\ subdivision \in 1..MaxSubdivision
    /\ ov_map \in BOOLEAN
    /\ IdleOverlap
    /\ IdleGrid
    /\ IdleMerge
    /\ IdleAug

\* An exception leaves the function: fn is the function that raised.
Raise(fn, e) == pc' = fn /\ err' = e

\* crop_data_with_overlap up to the first iteration of the tiling loops.
CropOvCall ==
    /\ pc = "ov_call"
    /\ IF ~ArgChecks(shape, window_size, subdivision)
       THEN /\ Raise("ov_crop_error", "AssertionError")
            /\ UNCHANGED <<geo, cropped_data, cropped_data_mask, it>>
       ELSE LET lay   == FindLayout(subdivision)
                g     == CropGeometry(shape, window_size, lay)
                iters == CropIters(shape, g)
            IN /\ cropped_data' = ZeroTiles(shape[1] * subdivision, window_size)
               /\ cropped_data_mask' = ZeroTiles(shape[1] * subdivision, window_size)
               /\ IF ~LayoutChecks(shape, window_size, subdivision, lay)
                  THEN /\ Raise("ov_crop_error", "AssertionError")
                       /\ geo' = [NoGeo EXCEPT !.rows = lay.rows, !.columns = lay.columns]
                       /\ it' = it
                  ELSE /\ geo' = g
                       /\ IF g.step_y = 0
                             \/ (Range(shape[2] - g.y_ov, g.step_y) # {} /\ g.step_x = 0)
                          THEN Raise("ov_crop_error", "ValueError") /\ it' = it
                          ELSE IF iters = {}
                               THEN pc' = "ov_crop_done" /\ err' = err /\ it' = it
                               ELSE pc' = "ov_crop_loop" /\ err' = err
                                    /\ it' = FirstIter(iters)
    /\ cont' = 0
    /\ UNCHANGED <<data, data_mask, shape, window_size, subdivision, ov_map,
                   overlap_matrix, ov_map_matrix, merged_data, original_shape,
                   m_geo, gridVars, gmVars, augVars>>

\* One iteration of the tiling loops: cut one tile of data and of data_mask.
CropOvStep ==
    /\ pc = "ov_crop_loop"
    /\ LET reg  == CropRegion(shape, window_size, geo, it)
           rest == Rest(it, CropIters(shape, geo))
       IN IF cont >= shape[1] * subdivision
          THEN /\ Raise("ov_crop_error", "IndexError")
               /\ UNCHANGED <<cropped_data, cropped_data_mask, cont, it>>
          ELSE IF ~(Broadcastable(reg.ly, window_size) /\ Broadcastable(reg.lx, window_size))
          THEN /\ Raise("ov_crop_error", "ValueError")
               /\ UNCHANGED <<cropped_data, cropped_data_mask, cont, it>>
          ELSE /\ cropped_data' =
                      [cropped_data EXCEPT ![cont] = TileOf(data, it[1], reg, window_size)]
               /\ cropped_data_mask' =
                      [cropped_data_mask EXCEPT ![cont] = TileOf(data_mask, it[1], reg, window_size)]
               /\ cont' = cont + 1
               /\ err' = err
               /\ IF rest = {}
                  THEN pc' = "ov_crop_done" /\ it' = it
                  ELSE pc' = pc /\ it' = FirstIter(rest)
    /\ UNCHANGED <<data, data_mask, shape, window_size, subdivision, geo, ov_map,
                   overlap_matrix, ov_map_matrix, merged_data, original_shape,
                   m_geo, gridVars, gmVars, augVars>>

(***************************************************************************)
(* merge_data_with_overlap, called on the tiles returned by the tiler with *)
(* original_shape = (data.shape[2], data.shape[1]).  original_shape[0] of  *)
(* the source is original_shape[1] here, original_shape[1] is [2].         *)
(***************************************************************************)
ov_data_img == 0

RECURSIVE MergeLayoutSearch(_, _, _)
MergeLayoutSearch(sub, i, st) ==
    IF i > sub \div 2 THEN st
    ELSE IF sub % i = 0 /\ Abs((sub \div i) - i) < st.min_d
         THEN MergeLayoutSearch(sub, i + 1,
                  [min_d |-> Abs((sub \div i) - i), rows |-> i, columns |-> sub \div i])
         ELSE MergeLayoutSearch(sub, i + 1, st)

MergeFindLayout(sub) ==
    MergeLayoutSearch(sub, 1, [min_d |-> maxsize, rows |-> 1, columns |-> 1])

\* The geometry with step = window_size (the overlap is not subtracted).
MergeGeometry_FullStep(os, ws, lay) ==
    [rows    |-> lay.rows,
     columns |-> lay.columns,
     y_ov    |-> IF lay.rows # 1
                 THEN Abs(os[2] - ws * lay.rows) \div (lay.rows - 1) ELSE 0,
     r_y     |-> IF lay.rows # 1
                 THEN Abs(os[2] - ws * lay.rows) % (lay.rows - 1) ELSE 0,
     step_y  |-> IF lay.rows # 1 THEN ws ELSE os[2],
     x_ov    |-> IF lay.columns # 1
                 THEN Abs(os[1] - ws * lay.columns) \div (lay.columns - 1) ELSE 0,
     r_x     |-> IF lay.columns # 1
                 THEN Abs(os[1] - ws * lay.columns) % (lay.columns - 1) ELSE 0,
     step_x  |-> IF lay.columns # 1 THEN ws ELSE os[1]]

MergeGeometry(os, ws, lay) ==
    [rows    |-> lay.rows,
     columns |-> lay.columns,
     y_ov    |-> IF lay.rows # 1
                 THEN Abs(os[2] - ws * lay.rows) \div (lay.rows - 1) ELSE 0,
     r_y     |-> IF lay.rows # 1
                 THEN Abs(os[2] - ws * lay.rows) % (lay.rows - 1) ELSE 0,
     step_y  |-> IF lay.rows # 1
                 THEN ws - (Abs(os[2] - ws * lay.rows) \div (lay.rows - 1)) ELSE os[2],
     x_ov    |-> IF lay.columns # 1
                 THEN Abs(os[1] - ws * lay.columns) \div (lay.columns - 1) ELSE 0,
     r_x     |-> IF lay.columns # 1
                 THEN Abs(os[1] - ws * lay.columns) % (lay.columns - 1) ELSE 0,
     step_x  |-> IF lay.columns # 1
                 THEN ws - (Abs(os[1] - ws * lay.columns) \div (lay.columns - 1)) ELSE os[1]]

\* total_images = int(data.shape[0]/subdivision); data.shape[0] is the number
\* of tiles the tiler allocated.
NumTiles == shape[1] * subdivision

total_images == NumTiles \div subdivision

\* The iterations of the loops over n images (n = 1 for the overlap matrix and
\* the border loops, which have no image loop).
MergeIters(n, os, g) == Iters(n, os[2] - g.y_ov, g.step_y, os[1] - g.x_ov, g.step_x)

\* The offsets with the two entries of original_shape exchanged.
MergeOffsets_SwappedShape(os, ws, g, t) ==
    LET d_y == IF t[2] + ws < os[1] THEN 0 ELSE g.r_y
        d_x == IF t[3] + ws < os[2] THEN 0 ELSE g.r_x
    IN [ya |-> t[2] - d_y, yb |-> t[2] + ws, xa |-> t[3] - d_x, xb |-> t[3] + ws,
        d_y |-> d_y, d_x |-> d_x]

\* d_y, d_x and the bounds i-d_y, i+window_size, j-d_x, j+window_size.
MergeOffsets(os, ws, g, t) ==
    LET d_y == IF t[2] + ws < os[2] THEN 0 ELSE g.r_y
        d_x == IF t[3] + ws < os[1] THEN 0 ELSE g.r_x
    IN [ya |-> t[2] - d_y, yb |-> t[2] + ws, xa |-> t[3] - d_x, xb |-> t[3] + ws,
        d_y |-> d_y, d_x |-> d_x]

MergeRegion(os, ws, g, t) ==
    LET o == MergeOffsets(os, ws, g, t)
    IN [y0 |-> SliceStart(o.ya, os[2]), ly |-> SliceLen(o.ya, o.yb, os[2]),
        x0 |-> SliceStart(o.xa, os[1]), lx |-> SliceLen(o.xa, o.xb, os[1])]

InRegion(reg, y, x) ==
    /\ reg.y0 <= y /\ y < reg.y0 + reg.ly
    /\ reg.x0 <= x /\ x < reg.x0 + reg.lx

\* merged_data[k] = np.true_divide(merged_data[k], overlap_matrix)
DivideImage(m, k, ovm) ==
    [p \in DOMAIN m |-> IF p[1] = k THEN TrueDivide(m[p][1], ovm[<<p[2], p[3]>>]) ELSE m[p]]

RECURSIVE DivideImages(_, _, _)
DivideImages(m, n, ovm) ==
    IF n = 0 THEN m ELSE DivideImage(DivideImages(m, n - 1, ovm), n - 1, ovm)

\* Entry of the merging loops (after the overlap matrix and the borders).
EnterMergeLoop ==
    LET iters == MergeIters(total_images, original_shape, m_geo)
    IN /\ cont' = 0
       /\ IF iters = {}
          THEN /\ pc' = "merge_finish"
               /\ it' = it
               /\ merged_data' = DivideImages(merged_data, total_images, overlap_matrix')
          ELSE /\ pc' = "merge_loop"
               /\ it' = FirstIter(iters)
               /\ merged_data' = merged_data

\* merge_data_with_overlap up to the first iteration of the overlap matrix loop.
MergeCall ==
    /\ pc = "ov_crop_done"
    /\ LET os    == <<shape[3], shape[2]>>
           lay   == MergeFindLayout(subdivision)
           g     == MergeGeometry(os, window_size, lay)
           iters == MergeIters(1, os, g)
       IN /\ original_shape' = os
          /\ m_geo' = g
          /\ merged_data' = [p \in VolDom(<<total_images, os[2], os[1]>>) |-> <<0, 1>>]
          /\ overlap_matrix' = Zeros(MatDom(os[2], os[1]))
          /\ ov_map_matrix' = IF ov_map THEN Zeros(MatDom(os[2], os[1])) ELSE Empty
          /\ IF g.step_y = 0 \/ (Range(os[2] - g.y_ov, g.step_y) # {} /\ g.step_x = 0)
             THEN Raise("merge_error", "ValueError") /\ it' = it
             ELSE /\ err' = err
                  /\ pc' = "merge_ovmat"
                  /\ it' = IF iters = {} THEN NoIter ELSE FirstIter(iters)
    /\ UNCHANGED <<data, data_mask, shape, window_size, subdivision, geo,
                   cropped_data, cropped_data_mask, cont, ov_map, gridVars, gmVars, augVars>>

\* One iteration of "Calculate the overlapping matrix".
OverlapStep ==
    /\ pc = "merge_ovmat"
    /\ LET iters == MergeIters(1, original_shape, m_geo)
           reg   == MergeRegion(original_shape, window_size, m_geo, it)
           rest  == Rest(it, iters)
           Add(m) == [p \in DOMAIN m |-> IF InRegion(reg, p[1], p[2]) THEN m[p] + 1 ELSE m[p]]
       IN /\ overlap_matrix' = IF iters = {} THEN overlap_matrix ELSE Add(overlap_matrix)
          /\ ov_map_matrix' = IF ov_map /\ iters # {} THEN Add(ov_map_matrix) ELSE ov_map_matrix
          /\ IF iters # {} /\ rest # {}
             THEN /\ pc' = pc /\ it' = FirstIter(rest)
                  /\ UNCHANGED <<cont, merged_data>>
             ELSE IF ov_map /\ iters # {}
                  THEN /\ pc' = "merge_border" /\ it' = FirstIter(iters)
                       /\ UNCHANGED <<cont, merged_data>>
                  ELSE EnterMergeLoop
    /\ UNCHANGED <<err, data, data_mask, shape, window_size, subdivision, geo,
                   cropped_data, cropped_data_mask, ov_map, original_shape, m_geo,
                   gridVars, gmVars, augVars>>

\* One iteration of "Mark the border of each crop in the map".
BorderStep ==
    /\ pc = "merge_border"
    /\ LET os   == original_shape
           ws   == window_size
           o    == MergeOffsets(os, ws, m_geo, it)
           rest == Rest(it, MergeIters(1, os, m_geo))
           c1   == o.xa
           c2   == it[3] + ws - 1 - o.d_x
           r1   == o.ya
           r2   == it[2] + ws - 1 - o.d_y
           ys   == SliceIdx(o.ya, it[2] + ws - 1, os[2])
           xs   == SliceIdx(o.xa, it[3] + ws - 1, os[1])
           painted == (ys \X {Index(c1, os[1]), Index(c2, os[1])})
                     \cup ({Index(r1, os[2]), Index(r2, os[2])} \X xs)
       IN IF ~(IndexOk(c1, os[1]) /\ IndexOk(c2, os[1])
               /\ IndexOk(r1, os[2]) /\ IndexOk(r2, os[2]))
          THEN /\ Raise("merge_error", "IndexError")
               /\ UNCHANGED <<ov_map_matrix, it, cont, merged_data>>
          ELSE /\ err' = err
               /\ ov_map_matrix' =
                      [p \in DOMAIN ov_map_matrix |-> IF p \in painted THEN -4 ELSE ov_map_matrix[p]]
               /\ IF rest # {}
                  THEN pc' = pc /\ it' = FirstIter(rest) /\ UNCHANGED <<cont, merged_data>>
                  ELSE EnterMergeLoop
    /\ UNCHANGED <<data, data_mask, shape, window_size, subdivision, geo,
                   cropped_data, cropped_data_mask, ov_map, overlap_matrix,
                   original_shape, m_geo, gridVars, gmVars, augVars>>

\* One iteration of "Merge the overlapping crops"; the image is normalised
\* when its last tile has been added.
MergeStep ==
    /\ pc = "merge_loop"
    /\ LET os    == original_shape
           ws    == window_size
           reg   == MergeRegion(os, ws, m_geo, it)
           rest  == Rest(it, MergeIters(total_images, os, m_geo))
           added == [p \in DOMAIN merged_data |->
                       IF p[1] = it[1] /\ InRegion(reg, p[2], p[3])
                       THEN <<merged_data[p][1]
                                + cropped_data[cont][<<BroadcastIdx(p[2] - reg.y0, ws),
                                                       BroadcastIdx(p[3] - reg.x0, ws)>>], 1>>
                       ELSE merged_data[p]]
           last  == rest = {} \/ FirstIter(rest)[1] # it[1]
       IN IF cont >= NumTiles
          THEN Raise("merge_error", "IndexError") /\ UNCHANGED <<merged_data, cont, it>>
          ELSE IF ~(Broadcastable(ws, reg.ly) /\ Broadcastable(ws, reg.lx))
          THEN Raise("merge_error", "ValueError") /\ UNCHANGED <<merged_data, cont, it>>
          ELSE /\ err' = err
               /\ cont' = cont + 1
               /\ merged_data' = IF last THEN DivideImage(added, it[1], overlap_matrix)
                                 ELSE added
               /\ IF rest = {}
                  THEN pc' = "merge_finish" /\ it' = it
                  ELSE pc' = pc /\ it' = FirstIter(rest)
    /\ UNCHANGED <<data, data_mask, shape, window_size, subdivision, geo,
                   cropped_data, cropped_data_mask, ov_map, overlap_matrix,
                   ov_map_matrix, original_shape, m_geo, gridVars, gmVars, augVars>>

\* The overlap bands of the diagnostic map, then return merged_data.
Band(v) ==
    LET a == IF v >= 8 THEN -1 ELSE v
        b == IF a >= 3 THEN -2 ELSE a
    IN IF b >= 2 THEN -3 ELSE b

MergeFinish ==
    /\ pc = "merge_finish"
    /\ IF ov_map /\ ~IndexOk(ov_data_img, total_images)
       THEN Raise("merge_error", "IndexError") /\ UNCHANGED ov_map_matrix
       ELSE /\ pc' = "merge_done"
            /\ err' = err
            /\ ov_map_matrix' = IF ov_map
                                THEN [p \in DOMAIN ov_map_matrix |-> Band(ov_map_matrix[p])]
                                ELSE ov_map_matrix
    /\ UNCHANGED <<data, data_mask, shape, window_size, subdivision, geo,
                   cropped_data, cropped_data_mask, cont, it, ov_map, overlap_matrix,
                   merged_data, original_shape, m_geo, gridVars, gmVars, augVars>>

NextOverlap ==
    \/ CropOvCall
    \/ CropOvStep
    \/ MergeCall
    \/ OverlapStep
    \/ BorderStep
    \/ MergeStep
    \/ MergeFinish

SpecOverlap == InitOverlap /\ [][NextOverlap]_vars

(***************************************************************************)
(* __foreground_percentage and crop_data.  crop_shape[0] of the source is  *)
(* crop_shape[1] here, crop_shape[1] is crop_shape[2]; selected_images is  *)
(* a sequence, so selected_images[l_i] of the source is                    *)
(* selected_images[l_i + 1].                                               *)
(***************************************************************************)
\* A 2D view of a volume: image k, rows y0..y0+ly-1, columns x0..x0+lx-1.
View(vol, k, reg) ==
    [shape |-> <<reg.ly, reg.lx>>,
     val   |-> [p \in MatDom(reg.ly, reg.lx) |-> vol[<<k, reg.y0 + p[1], reg.x0 + p[2]>>]]]

\* The count c of the pixels equal to class_tag.
ForegroundCount(mask, class_tag) ==
    Cardinality({p \in DOMAIN mask.val : mask.val[p] = class_tag})

\* (c*100)/(mask.shape[0]*mask.shape[1]) with the docstring's scale, a value
\* between 0 and 1.
foreground_percentage_Unit(mask, class_tag) ==
    <<ForegroundCount(mask, class_tag), mask.shape[1] * mask.shape[2]>>

\* (c*100)/(mask.shape[0]*mask.shape[1]) as the exact fraction <<num, den>>;
\* the division raises ZeroDivisionError when den = 0.
foreground_percentage(mask, class_tag) ==
    <<ForegroundCount(mask, class_tag) * 100, mask.shape[1] * mask.shape[2]>>

\* p >= d_percentage: an inclusive threshold.
Exceeds_Inclusive(p, d) == p[1] >= d * p[2]

\* p > d_percentage for a fraction p with positive denominator.
Exceeds(p, d) == p[1] > d * p[2]

\* int(a / b) + (a % b > 0)
CeilDiv(a, b) == (a \div b) + (IF a % b > 0 THEN 1 ELSE 0)

\* Shape of r_data: (data.shape[0], h_num*crop_shape[1], v_num*crop_shape[0]).
RShape(sh, cs, h, v) == <<sh[1], h * cs[2], v * cs[1]>>

\* r[:N, :D1, :D2] = vol can be broadcast.
PadOk(sh, rsh) ==
    /\ Broadcastable(sh[2], SliceLen(0, sh[2], rsh[2]))
    /\ Broadcastable(sh[3], SliceLen(0, sh[3], rsh[3]))

\* np.zeros(rsh) with vol written in the low-index corner.
Pad(vol, sh, rsh) ==
    [p \in VolDom(rsh) |->
        IF p[2] < SliceLen(0, sh[2], rsh[2]) /\ p[3] < SliceLen(0, sh[3], rsh[3])
        THEN vol[<<p[1], BroadcastIdx(p[2], sh[2]), BroadcastIdx(p[3], sh[3])>>]
        ELSE 0]

\* The region (i*crop_shape[0]):((i+1)*crop_shape[1]),
\* (j*crop_shape[0]):((j+1)*crop_shape[1]) of an array of shape rsh.
GridRegion(cs, rsh, t) ==
    [y0 |-> SliceStart(t[2] * cs[1], rsh[2]),
     ly |-> SliceLen(t[2] * cs[1], (t[2] + 1) * cs[2], rsh[2]),
     x0 |-> SliceStart(t[3] * cs[1], rsh[3]),
     lx |-> SliceLen(t[3] * cs[1], (t[3] + 1) * cs[2], rsh[3])]

\* A tile of the output has shape (crop_shape[1], crop_shape[0]).
GridTileOk(cs, reg) == Broadcastable(reg.ly, cs[2]) /\ Broadcastable(reg.lx, cs[1])

GridTile(vol, cs, k, reg) ==
    [p \in MatDom(cs[2], cs[1]) |->
        vol[<<k, reg.y0 + BroadcastIdx(p[1], reg.ly), reg.x0 + BroadcastIdx(p[2], reg.lx)>>]]

GridIters(n, h, v) == Iters(n, h, 1, v, 1)

\* data.shape[0] of a tile array.
NumTilesIn(tiles) == Cardinality(DOMAIN tiles)

ZeroGridTiles(n, cs) == [c \in 0..(n - 1) |-> Zeros(MatDom(cs[2], cs[1]))]

Discarding == d_percentage > 0 /\ data_mask # NoMask

\* Mask volumes: background only, foreground only, checkerboard, first
\* column, first image only, and a mask that was not rescaled (0/255).
MaskVolumes(sh) ==
    {[p \in VolDom(sh) |-> 0],
     [p \in VolDom(sh) |-> 1],
     CheckerVolume(sh),
     [p \in VolDom(sh) |-> IF p[3] = 0 THEN 1 ELSE 0],
     [p \in VolDom(sh) |-> IF p[1] = 0 THEN 1 ELSE 0],
     [p \in VolDom(sh) |-> 255]}

DPercentages == {0, 25, 50}

\* No forced layout, or a forced layout of 1 or MaxForce tiles on each axis.
ForceShapes == {<<0, 0>>} \cup ({1, MaxForce} \X {1, MaxForce})

\* A call crop_data(data, crop_shape, data_mask, force_shape, d_percentage),
\* with one image or MaxGridImages and tile sides of 1 or MaxCrop.
InitGrid ==
    /\ pc = "crop_call"
    /\ err = "none"
    /\ shape \in {1, MaxGridImages} \X (1..MaxGridDim) \X (1..MaxGridDim)
    /\ data = IndexVolume(shape)
    /\ data_mask \in {NoMask} \cup MaskVolumes(shape)
    /\ crop_shape \in {1, MaxCrop} \X {1, MaxCrop}
    /\ force_shape \in ForceShapes
    /\ d_percentage \in DPercentages
    /\ h_num = 0 /\ v_num = 0
    /\ r_data = Empty /\ r_data_mask = Empty /\ selected_images = << >>
    /\ discarded = 0 /\ l_i = 0
    /\ cropped_data = Empty /\ cropped_data_mask = Empty /\ cont = 0 /\ it = NoIter
    /\ window_size = 0 /\ subdivision = 0 /\ geo = NoGeo /\ ov_map = FALSE
    /\ overlap_matrix = Empty /\ ov_map_matrix = Empty /\ merged_data = Empty
    /\ original_shape = <<0, 0>> /\ m_geo = NoGeo
    /\ IdleMerge
    /\ IdleAug

\* crop_data up to the loop that selects the images to discard.
GridCall ==
    /\ pc = "crop_call"
    /\ LET h   == IF force_shape = <<0, 0>> THEN CeilDiv(shape[2], crop_shape[1])
                  ELSE force_shape[1]
           v   == IF force_shape = <<0, 0>> THEN CeilDiv(shape[3], crop_shape[2])
                  ELSE force_shape[2]
           rsh == RShape(shape, crop_shape, h, v)
       IN /\ h_num' = h
          /\ v_num' = v
          /\ IF ~PadOk(shape, rsh)
             THEN /\ Raise("crop_error", "ValueError")
                  /\ UNCHANGED <<r_data, r_data_mask, it>>
             ELSE /\ r_data' = Pad(data, shape, rsh)
                  /\ r_data_mask' = IF data_mask # NoMask THEN Pad(data_mask, shape, rsh)
                                    ELSE r_data_mask
                  /\ err' = err
                  /\ IF Discarding /\ GridIters(rsh[1], h, v) # {}
                     THEN pc' = "crop_select" /\ it' = FirstIter(GridIters(rsh[1], h, v))
                     ELSE pc' = "crop_alloc" /\ it' = it
    /\ discarded' = 0
    /\ cont' = 0
    /\ selected_images' = << >>
    /\ UNCHANGED <<data, data_mask, shape, cropped_data, cropped_data_mask,
                   crop_shape, force_shape, d_percentage, l_i, ovVars, gmVars, augVars>>

\* One iteration of "Discard images from the data set".
SelectStep ==
    /\ pc = "crop_select"
    /\ LET rsh  == RShape(shape, crop_shape, h_num, v_num)
           reg  == GridRegion(crop_shape, rsh, it)
           p    == foreground_percentage(View(r_data_mask, it[1], reg), 1)
           rest == Rest(it, GridIters(rsh[1], h_num, v_num))
       IN IF p[2] = 0
          THEN /\ Raise("crop_error", "ZeroDivisionError")
               /\ UNCHANGED <<selected_images, discarded, cont, it>>
          ELSE /\ err' = err
               /\ selected_images' = IF Exceeds(p, d_percentage)
                                     THEN Append(selected_images, cont)
                                     ELSE selected_images
               /\ discarded' = IF Exceeds(p, d_percentage) THEN discarded
                               ELSE discarded + 1
               /\ cont' = cont + 1
               /\ IF rest = {}
                  THEN pc' = "crop_alloc" /\ it' = it
                  ELSE pc' = pc /\ it' = FirstIter(rest)
    /\ UNCHANGED <<data, data_mask, shape, cropped_data, cropped_data_mask,
                   crop_shape, force_shape, h_num, v_num, d_percentage, r_data,
                   r_data_mask, l_i, ovVars, gmVars, augVars>>

\* Allocation of the output arrays and entry of the cropping loops.
GridAllocate ==
    /\ pc = "crop_alloc"
    /\ LET total_cropped == shape[1] * h_num * v_num
           iters         == GridIters(shape[1], h_num, v_num)
       IN /\ cropped_data' = ZeroGridTiles(total_cropped - discarded, crop_shape)
          /\ cropped_data_mask' = IF data_mask # NoMask
                                  THEN ZeroGridTiles(total_cropped - discarded, crop_shape)
                                  ELSE cropped_data_mask
          /\ IF iters = {}
             THEN pc' = "crop_done" /\ it' = it
             ELSE pc' = "crop_loop" /\ it' = FirstIter(iters)
    /\ cont' = 0
    /\ l_i' = 0
    /\ UNCHANGED <<err, data, data_mask, shape, crop_shape, force_shape, h_num,
                   v_num, d_percentage, r_data, r_data_mask, selected_images,
                   discarded, ovVars, gmVars, augVars>>

\* One iteration of "Crop data".
CropStep ==
    /\ pc = "crop_loop"
    /\ LET rsh  == RShape(shape, crop_shape, h_num, v_num)
           reg  == GridRegion(crop_shape, rsh, it)
           rest == Rest(it, GridIters(rsh[1], h_num, v_num))
           M    == shape[1] * h_num * v_num - discarded
           Advance == /\ cont' = cont + 1
                      /\ err' = err
                      /\ IF rest = {}
                         THEN pc' = "crop_done" /\ it' = it
                         ELSE pc' = pc /\ it' = FirstIter(rest)
           Fail(e) == Raise("crop_error", e) /\ UNCHANGED <<cont, it>>
       IN IF Discarding /\ Len(selected_images) # 0
          THEN IF selected_images[l_i + 1] = cont \/ l_i = Len(selected_images) - 1
               THEN IF ~GridTileOk(crop_shape, reg)
                    THEN Fail("ValueError")
                         /\ UNCHANGED <<cropped_data, cropped_data_mask, l_i>>
                    ELSE /\ cropped_data' =
                               [cropped_data EXCEPT ![l_i] = GridTile(r_data, crop_shape, it[1], reg)]
                         /\ cropped_data_mask' =
                               [cropped_data_mask EXCEPT
                                   ![l_i] = GridTile(r_data_mask, crop_shape, it[1], reg)]
                         /\ l_i' = IF l_i # Len(selected_images) - 1 THEN l_i + 1 ELSE l_i
                         /\ Advance
               ELSE Advance /\ UNCHANGED <<cropped_data, cropped_data_mask, l_i>>
          ELSE IF cont >= M
               THEN Fail("IndexError") /\ UNCHANGED <<cropped_data, cropped_data_mask, l_i>>
               ELSE IF ~GridTileOk(crop_shape, reg)
               THEN Fail("ValueError") /\ UNCHANGED <<cropped_data, cropped_data_mask, l_i>>
               ELSE /\ cropped_data' =
                          [cropped_data EXCEPT ![cont] = GridTile(r_data, crop_shape, it[1], reg)]
                    /\ cropped_data_mask' =
                          IF data_mask # NoMask
                          THEN [cropped_data_mask EXCEPT
                                   ![cont] = GridTile(r_data_mask, crop_shape, it[1], reg)]
                          ELSE cropped_data_mask
                    /\ l_i' = l_i
                    /\ Advance
    /\ UNCHANGED <<data, data_mask, shape, crop_shape, force_shape, h_num, v_num,
                   d_percentage, r_data, r_data_mask, selected_images, discarded,
                   ovVars, gmVars, augVars>>

(***************************************************************************)
(* merge_data_without_overlap, called on the tiles crop_data returned.     *)
(* out_shape[0] of the source is out_shape[1] here.  width and height are  *)
(* the source's names: width = data.shape[1], height = data.shape[2].      *)
(***************************************************************************)
\* The values of num, out_shape and grid the caller passes.
MergeNums == {1, shape[1]}

MergeOutShapes == {<<v_num, h_num>>, <<1, 1>>}

\* width = data.shape[1] and height = data.shape[2] of the tile array.
width == crop_shape[2]

height == crop_shape[1]

\* v is 255 when np.max(data) > 1, else 1.
GridValue(tiles) ==
    IF \E k \in DOMAIN tiles : \E q \in DOMAIN tiles[k] : tiles[k][q] > 1 THEN 255 ELSE 1

\* mixed_data.shape
MixedShape(n, os) == <<n, os[2] * width, os[1] * height>>

MergeWoIters(n, os) == Iters(n, os[2], 1, os[1], 1)

\* The region with the row and the column offsets exchanged.
GmRegion_Swapped(msh, t) ==
    [y0 |-> SliceStart(t[3] * width, msh[2]),
     ly |-> SliceLen(t[3] * width, (t[3] + 1) * height, msh[2]),
     x0 |-> SliceStart(t[2] * width, msh[3]),
     lx |-> SliceLen(t[2] * width, (t[2] + 1) * height, msh[3])]

\* The region (i*width):((i+1)*height), (j*width):((j+1)*height).
GmRegion(msh, t) ==
    [y0 |-> SliceStart(t[2] * width, msh[2]),
     ly |-> SliceLen(t[2] * width, (t[2] + 1) * height, msh[2]),
     x0 |-> SliceStart(t[3] * width, msh[3]),
     lx |-> SliceLen(t[3] * width, (t[3] + 1) * height, msh[3])]

\* The pixels of image t[1] painted with v when grid is True.
GmGridLines(msh, t) ==
    LET ys == SliceIdx(t[2] * width, (t[2] + 1) * height - 1, msh[2])
        xs == SliceIdx(t[3] * width, (t[3] + 1) * height - 1, msh[3])
    IN (ys \X {t[3] * width, (t[3] + 1) * width - 1})
          \cup ({t[2] * height, (t[2] + 1) * height - 1} \X xs)

\* The integer indexes of the four grid line assignments are in bounds.
GmGridOk(msh, t) ==
    /\ IndexOk(t[3] * width, msh[3]) /\ IndexOk((t[3] + 1) * width - 1, msh[3])
    /\ IndexOk(t[2] * height, msh[2]) /\ IndexOk((t[2] + 1) * height - 1, msh[2])

\* merge_data_without_overlap up to its loop.
MergeWoCall ==
    /\ pc = "crop_done"
    /\ \E n \in MergeNums, os \in MergeOutShapes, g \in BOOLEAN :
          /\ num' = n
          /\ out_shape' = os
          /\ grid' = g
          /\ mixed_data' = Zeros(VolDom(MixedShape(n, os)))
          /\ cont' = 0
          /\ IF MergeWoIters(n, os) = {}
             THEN pc' = "gm_done" /\ it' = it
             ELSE pc' = "gm_loop" /\ it' = FirstIter(MergeWoIters(n, os))
    /\ UNCHANGED <<err, data, data_mask, shape, cropped_data, cropped_data_mask,
                   gridVars, ovVars, augVars>>

\* One iteration of the loop over img_num, i, j.
MergeWoStep ==
    /\ pc = "gm_loop"
    /\ LET msh  == MixedShape(num, out_shape)
           reg  == GmRegion(msh, it)
           rest == Rest(it, MergeWoIters(num, out_shape))
           v    == GridValue(cropped_data)
           tile == cropped_data[cont]
           pasted == [p \in DOMAIN mixed_data |->
                         IF p[1] = it[1] /\ InRegion(reg, p[2], p[3])
                         THEN tile[<<BroadcastIdx(p[2] - reg.y0, width),
                                     BroadcastIdx(p[3] - reg.x0, height)>>]
                         ELSE mixed_data[p]]
           lines == GmGridLines(msh, it)
       IN IF cont = NumTilesIn(cropped_data)
          THEN pc' = "gm_done" /\ UNCHANGED <<err, mixed_data, cont, it>>
          ELSE IF ~(Broadcastable(width, reg.ly) /\ Broadcastable(height, reg.lx))
          THEN Raise("gm_error", "ValueError") /\ UNCHANGED <<mixed_data, cont, it>>
          ELSE IF grid /\ ~GmGridOk(msh, it)
          THEN Raise("gm_error", "IndexError") /\ UNCHANGED <<mixed_data, cont, it>>
          ELSE /\ mixed_data' =
                     IF grid
                     THEN [p \in DOMAIN mixed_data |->
                              IF p[1] = it[1] /\ <<p[2], p[3]>> \in lines THEN v ELSE pasted[p]]
                     ELSE pasted
               /\ cont' = cont + 1
               /\ err' = err
               /\ IF rest = {}
                  THEN pc' = "gm_done" /\ it' = it
                  ELSE pc' = pc /\ it' = FirstIter(rest)
    /\ UNCHANGED <<data, data_mask, shape, cropped_data, cropped_data_mask,
                   gridVars, ovVars, num, out_shape, grid, augVars>>

NextGrid ==
    \/ GridCall
    \/ SelectStep
    \/ GridAllocate
    \/ CropStep
    \/ MergeWoCall
    \/ MergeWoStep

SpecGrid == InitGrid /\ [][NextGrid]_vars

(***************************************************************************)
(* random_crop.  An image [H, W, 1] is a function over <<y, x>>; None is   *)
(* the empty function.  random_crop_size[0] of the source is               *)
(* random_crop_size[1] here.  img_prob holds 1 where the probability of a  *)
(* pixel is positive and 0 where it is zero: np.random.choice returns any  *)
(* index of positive probability.                                          *)
(***************************************************************************)
None == << >>

\* img.shape[0], img.shape[1] of a non-empty image.
ShapeOf(m) ==
    <<1 + (CHOOSE y \in {p[1] : p \in DOMAIN m} : \A q \in DOMAIN m : q[1] <= y),
      1 + (CHOOSE x \in {p[2] : p \in DOMAIN m} : \A q \in DOMAIN m : q[2] <= x)>>

IndexImage(h, w) == [p \in MatDom(h, w) |-> 1 + p[1] * w + p[2]]

CheckerImage(h, w) == [p \in MatDom(h, w) |-> (p[1] + p[2]) % 2]

\* A sampler that includes its upper end.
Randint_Inclusive(high) == 0..high

\* np.random.randint(0, high): the integers 0..high-1, ValueError if high <= 0.
Randint(high) == 0..(high - 1)

\* The clamp of one coordinate o of the sampled point, for an axis of
\* length dim and a crop of length size.
ClampOrigin(o, dim, size) ==
    IF o < size \div 2 THEN 0
    ELSE IF o > dim - (size \div 2) THEN dim - size
    ELSE o - (size \div 2)

\* The indexes np.random.choice can return, as points <<oy, ox>>.
SampledPoints(img_prob) == {p \in DOMAIN img_prob : img_prob[p] > 0}

NoPoint == -1

Outcome(e, y, x, oy, ox) == [err |-> e, y |-> y, x |-> x, oy |-> oy, ox |-> ox]

\* The outcomes with the val flag ignored: the origin is always sampled.
RandomCropOutcomes_ValIgnored(a) ==
    LET sh == ShapeOf(a.img)
        dy == a.random_crop_size[1]
        dx == a.random_crop_size[2]
    IN IF a.prob_map
       THEN IF a.img_prob = None THEN {Outcome("AttributeError", 0, 0, NoPoint, NoPoint)}
            ELSE IF SampledPoints(a.img_prob) = {}
            THEN {Outcome("ValueError", 0, 0, NoPoint, NoPoint)}
            ELSE {Outcome("none", ClampOrigin(p[1], sh[1], dy), ClampOrigin(p[2], sh[2], dx),
                          p[1], p[2]) : p \in SampledPoints(a.img_prob)}
       ELSE IF sh[2] - dx + 1 <= 0 \/ sh[1] - dy + 1 <= 0
            THEN {Outcome("ValueError", 0, 0, NoPoint, NoPoint)}
            ELSE {Outcome("none", o[1], o[2], NoPoint, NoPoint) :
                     o \in Randint(sh[1] - dy + 1) \X Randint(sh[2] - dx + 1)}

\* The locals y, x, oy, ox random_crop can reach its return statement with,
\* or the exception it raises before.
RandomCropOutcomes(a) ==
    LET sh == ShapeOf(a.img)
        dy == a.random_crop_size[1]
        dx == a.random_crop_size[2]
    IN IF a.val THEN {Outcome("none", 0, 0, NoPoint, NoPoint)}
       ELSE IF a.prob_map
       THEN IF a.img_prob = None THEN {Outcome("AttributeError", 0, 0, NoPoint, NoPoint)}
            ELSE IF SampledPoints(a.img_prob) = {}
            THEN {Outcome("ValueError", 0, 0, NoPoint, NoPoint)}
            ELSE {Outcome("none", ClampOrigin(p[1], sh[1], dy), ClampOrigin(p[2], sh[2], dx),
                          p[1], p[2]) : p \in SampledPoints(a.img_prob)}
       ELSE IF sh[2] - dx + 1 <= 0 \/ sh[1] - dy + 1 <= 0
            THEN {Outcome("ValueError", 0, 0, NoPoint, NoPoint)}
            ELSE {Outcome("none", o[1], o[2], NoPoint, NoPoint) :
                     o \in Randint(sh[1] - dy + 1) \X Randint(sh[2] - dx + 1)}

\* The shape of m[y:(y+dy), x:(x+dx), :].
WindowShape(m, y, x, dy, dx) ==
    <<SliceLen(y, y + dy, ShapeOf(m)[1]), SliceLen(x, x + dx, ShapeOf(m)[2])>>

\* m[y:(y+dy), x:(x+dx), :]
Window(m, y, x, dy, dx) ==
    LET sh == ShapeOf(m)
        ws == WindowShape(m, y, x, dy, dx)
    IN [p \in MatDom(ws[1], ws[2]) |->
           m[<<SliceStart(y, sh[1]) + p[1], SliceStart(x, sh[2]) + p[2]>>]]

\* What the return statement gives for the locals of outcome o: the image
\* and mask windows (and ox, oy, x, y when draw_prob_map_points is True,
\* which raises UnboundLocalError when no point was sampled).
RandomCropReturn(a, o) ==
    LET dy == a.random_crop_size[1]
        dx == a.random_crop_size[2]
    IN IF o.err # "none" THEN [err |-> o.err]
       ELSE IF a.draw_prob_map_points /\ o.ox = NoPoint THEN [err |-> "UnboundLocalError"]
       ELSE [err |-> "none",
             img |-> Window(a.img, o.y, o.x, dy, dx),
             mask |-> Window(a.mask, o.y, o.x, dy, dx),
             shape |-> WindowShape(a.img, o.y, o.x, dy, dx),
             mask_shape |-> WindowShape(a.mask, o.y, o.x, dy, dx),
             y |-> o.y, x |-> o.x, oy |-> o.oy, ox |-> o.ox]

\* The probability maps explored: none, every pixel possible, no pixel
\* possible (a map of zeros).
ProbMaps(h, w) == {None, [p \in MatDom(h, w) |-> 1], [p \in MatDom(h, w) |-> 0]}

RandomCropArgs ==
    UNION {
        {[img |-> IndexImage(sh[1], sh[2]), mask |-> CheckerImage(sh[1], sh[2]),
          random_crop_size |-> cs, val |-> v, prob_map |-> pm,
          draw_prob_map_points |-> dr, img_prob |-> ip] :
             cs \in (1..MaxCropLen) \X (1..MaxCropLen),
             v \in BOOLEAN, pm \in BOOLEAN, dr \in BOOLEAN, ip \in ProbMaps(sh[1], sh[2])} :
        sh \in (1..MaxImgDim) \X (1..MaxImgDim)}

IdleTiling ==
    /\ data = << >> /\ data_mask = << >> /\ shape = <<0, 0, 0>>
    /\ window_size = 0 /\ subdivision = 0 /\ ov_map = FALSE
    /\ IdleOverlap /\ IdleGrid /\ IdleMerge

\* random_crop(img, mask, random_crop_size, val, prob_map,
\* draw_prob_map_points, img_prob), called NumCalls times on the same
\* arguments.
InitRandomCrop ==
    /\ pc = "rc_call"
    /\ err = "none"
    /\ args \in RandomCropArgs
    /\ ret = << >>
    /\ self = << >> /\ index = 0 /\ batch_x = << >> /\ batch_y = << >>
    /\ IdleTiling

\* One call of random_crop.
RandomCropCall ==
    /\ pc = "rc_call"
    /\ \E o \in RandomCropOutcomes(args) :
          LET r == RandomCropReturn(args, o)
          IN /\ ret' = Append(ret, r)
             /\ err' = r.err
    /\ pc' = IF Len(ret) + 1 >= NumCalls THEN "rc_done" ELSE "rc_call"
    /\ UNCHANGED <<args, self, index, batch_x, batch_y, data, data_mask, shape,
                   cropped_data, cropped_data_mask, cont, it, ovVars, gridVars, gmVars>>

NextRandomCrop == RandomCropCall

SpecRandomCrop == InitRandomCrop /\ [][NextRandomCrop]_vars

(***************************************************************************)
(* ImageDataGenerator.apply_transform.  A draw of random.uniform(0, 1) is  *)
(* kept in hundredths (0..99), and so is e_prob.  The library calls        *)
(* (elastic_transform, ndimage.rotate, ImageEnhance.Brightness,            *)
(* cv2.medianBlur) are not interpreted: a sample is a record of its pixel  *)
(* arrangement px and of the sequence ops of library calls applied to it.  *)
(* t_counter[0] of the source is t_counter[1] here.  grid keeps its        *)
(* default False.                                                          *)
(***************************************************************************)
\* The draws explored: the ends of the bands [0, 25), [25, 50), [50, 75)
\* and [75, 100).
Draws == {0, 24, 25, 50, 75}

Sample(m) == [px |-> m, ops |-> << >>]

\* np.flip(m, 0)
FlipV(m) ==
    LET sh == ShapeOf(m) IN [p \in DOMAIN m |-> m[<<sh[1] - 1 - p[1], p[2]>>]]

\* np.flip(m, 1)
FlipH(m) ==
    LET sh == ShapeOf(m) IN [p \in DOMAIN m |-> m[<<p[1], sh[2] - 1 - p[2]>>]]

\* np.rot90(m): counterclockwise, the result has shape (W, H).
Rot90(m) ==
    LET sh == ShapeOf(m)
    IN [p \in MatDom(sh[2], sh[1]) |-> m[<<p[2], sh[2] - 1 - p[1]>>]]

\* The transforms applied to the pixels of a sample, its tags kept.
FlipVOn(s) == [s EXCEPT !.px = FlipV(@)]

FlipHOn(s) == [s EXCEPT !.px = FlipH(@)]

Rot90On(s) == [s EXCEPT !.px = Rot90(@)]

LibCall(s, op) == [s EXCEPT !.ops = Append(s.ops, op)]

Bump(t, k) == [t EXCEPT ![k] = t[k] + 1]

\* The elastic gate at half the configured probability.
ElasticFires_Half(g, prob) == g.elastic /\ prob < g.e_prob \div 2

\* self.elastic == True and prob < self.e_prob
ElasticFires(g, prob) == g.elastic /\ prob < g.e_prob

\* The flip branch taken for the draw prob: "vf", "hf", "hfvf" or "none".
FlipBranch(g, prob) ==
    IF g.vflip /\ 0 <= prob /\ prob < 25 THEN "vf"
    ELSE IF g.hflip /\ 25 <= prob /\ prob < 50 THEN "hf"
    ELSE IF g.hflip /\ 50 <= prob /\ prob < 75 THEN "hfvf"
    ELSE "none"

\* The rotation branch that ignores self.squared.
RotBranch_AnyShape(g, prob) ==
    IF g.rotation90 /\ 0 <= prob /\ prob < 25 THEN "r90"
    ELSE IF g.rotation90 /\ 25 <= prob /\ prob < 50 THEN "r180"
    ELSE IF g.rotation90 /\ 50 <= prob /\ prob < 75 THEN "r270"
    ELSE "none"

\* The rotation branch taken for the draw prob: "r90", "r180", "r270" or
\* "none".
RotBranch(g, prob) ==
    IF g.squared
    THEN IF g.rotation90 /\ 0 <= prob /\ prob < 25 THEN "r90"
         ELSE IF g.rotation90 /\ 25 <= prob /\ prob < 50 THEN "r180"
         ELSE IF g.rotation90 /\ 50 <= prob /\ prob < 75 THEN "r270"
         ELSE "none"
    ELSE IF g.rotation90 /\ 0 <= prob /\ prob < 50 THEN "r180" ELSE "none"

\* __draw_grid(im, grid_width=50, m): every 50th column and every 50th row
\* of im set to v (255, or 1 for a mask), written in place.
GridWidth == 50

draw_grid(im, v) ==
    [p \in DOMAIN im |-> IF p[2] % GridWidth = 0 \/ p[1] % GridWidth = 0 THEN v ELSE im[p]]

DrawGridOn(s, v) == [s EXCEPT !.px = draw_grid(@, v)]

\* trans_image = image instead of np.copy(image): a write into trans_image
\* is a write into the caller's array.
CallerArray_Shared(orig, written) == written

\* The caller's array orig after trans_image = np.copy(orig) was written in
\* place to the value written: the copy is a buffer of its own.
CallerArray(orig, written) == orig

\* apply_transform(image, mask, grid=grid) on the generator g with the
\* draws d.e, d.f, d.r of its three random.uniform calls: the returned
\* image, mask and transform string, the counters it leaves in
\* self.t_counter, and the caller's image and mask after the call.
ApplyTransform(g, image, mask, grid_on, d) ==
    LET el  == ElasticFires(g, d.e)
        gi  == IF el /\ grid_on THEN DrawGridOn(image, 255) ELSE image
        gm  == IF el /\ grid_on THEN DrawGridOn(mask, 1) ELSE mask
        fb  == FlipBranch(g, d.f)
        rb  == RotBranch(g, d.r)
        rr  == g.rotation_range # 0
        br  == g.brightness_range # <<1, 1>>
        mf  == g.median_filter_size # <<0, 0>>
        i1  == IF el THEN LibCall(gi, "elastic") ELSE image
        m1  == IF el THEN LibCall(gm, "elastic") ELSE mask
        t1  == IF el THEN Bump(g.t_counter, 1) ELSE g.t_counter
        i2  == IF fb = "vf" THEN FlipVOn(i1)
               ELSE IF fb = "hf" THEN FlipHOn(i1)
               ELSE IF fb = "hfvf" THEN FlipHOn(FlipVOn(i1))
               ELSE i1
        m2  == IF fb = "vf" THEN FlipVOn(m1)
               ELSE IF fb = "hf" THEN FlipHOn(m1)
               ELSE IF fb = "hfvf" THEN FlipHOn(FlipVOn(m1))
               ELSE m1
        t2  == IF fb = "vf" THEN Bump(t1, 2)
               ELSE IF fb = "hf" THEN Bump(t1, 3)
               ELSE IF fb = "hfvf" THEN Bump(Bump(t1, 2), 3)
               ELSE t1
        i3  == IF rr THEN LibCall(i2, "rotate") ELSE i2
        m3  == IF rr THEN LibCall(m2, "rotate") ELSE m2
        Rot(x) == IF rb = "r90" THEN Rot90On(x)
                  ELSE IF rb = "r180" THEN Rot90On(Rot90On(x))
                  ELSE IF rb = "r270" THEN Rot90On(Rot90On(Rot90On(x)))
                  ELSE x
        i4  == Rot(i3)
        m4  == Rot(m3)
        t4  == IF rb = "r90" THEN Bump(t2, 4)
               ELSE IF rb = "r180" THEN Bump(t2, 5)
               ELSE IF rb = "r270" THEN Bump(t2, 6)
               ELSE t2
        i5  == IF br THEN LibCall(i4, "brightness") ELSE i4
        i6  == IF mf THEN LibCall(i5, "median") ELSE i5
        str == (IF el THEN <<"_e">> ELSE << >>)
               \o (IF fb # "none" THEN <<"_" \o fb>> ELSE << >>)
               \o (IF rr THEN <<"_rRange">> ELSE << >>)
               \o (IF rb # "none" THEN <<"_" \o rb>> ELSE << >>)
               \o (IF br THEN <<"_b">> ELSE << >>)
               \o (IF mf THEN <<"_mf">> ELSE << >>)
    IN [trans_image |-> i6, trans_mask |-> m4,
        transform_string |-> IF str = << >> THEN <<"_none">> ELSE str,
        t_counter |-> t4,
        image |-> CallerArray(image, gi), mask |-> CallerArray(mask, gm)]

\* The three draws of one call.
\* The draws of random.uniform that take generator g to different branches:
\* for each of the three tests on prob, the least draw of every outcome.
ElasticDraws(g) ==
    {a \in Draws : \A b \in Draws : ElasticFires(g, b) = ElasticFires(g, a) => a <= b}

FlipDraws(g) ==
    {a \in Draws : \A b \in Draws : FlipBranch(g, b) = FlipBranch(g, a) => a <= b}

RotDraws(g) ==
    {a \in Draws : \A b \in Draws : RotBranch(g, b) = RotBranch(g, a) => a <= b}

BranchDraws(g) ==
    {[e |-> a, f |-> b, r |-> c] : a \in ElasticDraws(g), b \in FlipDraws(g), c \in RotDraws(g)}

\* The steps after the flips and the quarter rotations: all disabled, or
\* free rotation, brightness and median filter all enabled.
LaterSteps ==
    {[rotation_range |-> 0, brightness_range |-> <<1, 1>>, median_filter_size |-> <<0, 0>>],
     [rotation_range |-> 10, brightness_range |-> <<1, 2>>, median_filter_size |-> <<3, 5>>]}

\* The fields of a freshly constructed generator that apply_transform
\* reads; e_prob and the grid argument are read only when elastic is set,
\* and take one value otherwise; the steps after the quarter rotations are
\* enabled on generators without quarter rotations.
TransformSettings ==
    {[elastic |-> el, e_prob |-> ep, vflip |-> vf, hflip |-> hf, rotation90 |-> r9,
      rotation_range |-> ls.rotation_range, brightness_range |-> ls.brightness_range,
      median_filter_size |-> ls.median_filter_size, squared |-> sq,
      t_counter |-> <<0, 0, 0, 0, 0, 0>>] :
        el \in BOOLEAN, ep \in {50, 100}, vf \in BOOLEAN, hf \in BOOLEAN, r9 \in BOOLEAN,
        ls \in LaterSteps, sq \in BOOLEAN}

TransformGenerators ==
    {g \in TransformSettings :
        /\ g.elastic \/ g.e_prob = 50
        /\ g.rotation_range = 0 \/ ~g.rotation90}

\* apply_transform(image, mask, grid=args.grid) called up to MaxCalls times
\* on a freshly constructed generator; cont counts the calls, ret is the
\* last return.
InitTransform ==
    /\ pc = "at_call"
    /\ err = "none"
    /\ self \in TransformGenerators
    /\ \E gr \in (IF self.elastic THEN BOOLEAN ELSE {FALSE}) :
          args = IF self.squared
                 THEN [image |-> Sample(IndexImage(2, 2)), mask |-> Sample(CheckerImage(2, 2)),
                       grid |-> gr]
                 ELSE [image |-> Sample(IndexImage(1, 2)), mask |-> Sample(CheckerImage(1, 2)),
                       grid |-> gr]
    /\ ret = << >>
    /\ index = 0 /\ batch_x = << >> /\ batch_y = << >>
    /\ IdleTiling

\* One call of apply_transform.
ApplyTransformCall ==
    /\ pc = "at_call"
    /\ cont < MaxCalls
    /\ \E d \in BranchDraws(self) :
          LET r == ApplyTransform(self, args.image, args.mask, args.grid, d)
          IN /\ ret' = <<[trans_image |-> r.trans_image, trans_mask |-> r.trans_mask,
                          transform_string |-> r.transform_string]>>
             /\ self' = [self EXCEPT !.t_counter = r.t_counter]
             /\ args' = [args EXCEPT !.image = r.image, !.mask = r.mask]
    /\ cont' = cont + 1
    /\ UNCHANGED <<pc, err, index, batch_x, batch_y, data, data_mask, shape,
                   cropped_data, cropped_data_mask, it, ovVars, gridVars, gmVars>>

NextTransform == ApplyTransformCall

SpecTransform == InitTransform /\ [][NextTransform]_vars

(***************************************************************************)
(* ImageDataGenerator: __init__, __len__, __getitem__, on_epoch_end.       *)
(* X, Y and indexes are functions over 0..N-1; a batch is a function over  *)
(* 0..batch_size-1 of samples.  args holds the constructor arguments.      *)
(***************************************************************************)
\* A slot of np.empty that was never assigned.
Uninit == [px |-> << >>, ops |-> <<"empty">>]

\* The supplied mask values with the mask scaled to something else.
ScaleY_Unscaled(Y) == [k \in DOMAIN Y |-> [q \in DOMAIN Y[k] |-> <<Y[k][q], 1>>]]

\* self.Y = Y / 255, kept exact.
ScaleY(Y) == [k \in DOMAIN Y |-> [q \in DOMAIN Y[k] |-> TrueDivide(Y[k][q], 255)]]

\* np.arange(len(self.X))
Arange(n) == [k \in 0..(n - 1) |-> k]

\* The orders np.random.shuffle can leave the indexes in.
Shuffles(n) == {f \in [0..(n - 1) -> 0..(n - 1)] : \A a, b \in 0..(n - 1) : f[a] = f[b] => a = b}

\* on_epoch_end shuffling whatever self.shuffle says.
EpochIndexes_AlwaysShuffled(n, shuffle) == Shuffles(n)

\* The values self.indexes can have after on_epoch_end.
EpochIndexes(n, shuffle) == IF shuffle THEN Shuffles(n) ELSE {Arange(n)}

\* The object __init__ builds from the arguments a, with the indexes idx
\* that its call of on_epoch_end left.
Construct(a, idx) ==
    [X |-> a.X, Y |-> ScaleY(a.Y), batch_size |-> a.batch_size,
     dim |-> IF a.random_crops_in_DA THEN <<a.crop_length, a.crop_length>> ELSE a.dim,
     shuffle |-> a.shuffle, da |-> a.da, e_prob |-> a.e_prob, elastic |-> a.elastic,
     vflip |-> a.vflip, hflip |-> a.hflip, rotation90 |-> a.rotation90,
     rotation_range |-> a.rotation_range, brightness_range |-> a.brightness_range,
     median_filter_size |-> a.median_filter_size,
     random_crops_in_DA |-> a.random_crops_in_DA, crop_length |-> a.crop_length,
     prob_map |-> a.prob_map, train_prob |-> a.train_prob, val |-> a.val,
     indexes |-> idx,
     squared |-> (ShapeOf(a.X[0])[1] = ShapeOf(a.X[0])[2] \/ a.random_crops_in_DA),
     t_counter |-> <<0, 0, 0, 0, 0, 0>>]

\* __len__
GenLen(g) == Cardinality(DOMAIN g.X) \div g.batch_size

\* The slice taken one position too long.
BatchPositions_OneMore(g, b) ==
    SliceIdx(b * g.batch_size, (b + 1) * g.batch_size + 1, Cardinality(DOMAIN g.indexes))

\* self.indexes[index*batch_size:(index+1)*batch_size] as the positions taken.
BatchPositions(g, b) ==
    SliceIdx(b * g.batch_size, (b + 1) * g.batch_size, Cardinality(DOMAIN g.indexes))

\* The number of (i, j) pairs of zip(range(0, batch_size), indexes).
ZipLen(g, b) == Min(g.batch_size, Cardinality(BatchPositions(g, b)))

\* Assigning a sample of shape sh to a batch slot of shape dim: the
\* broadcast value, or ValueError.
SlotOk(sh, dim) == Broadcastable(sh[1], dim[1]) /\ Broadcastable(sh[2], dim[2])

Slot(smp, sh, dim) ==
    [smp EXCEPT !.px = [q \in MatDom(dim[1], dim[2]) |->
                           smp.px[<<BroadcastIdx(q[1], sh[1]), BroadcastIdx(q[2], sh[2])>>]]]

\* The arguments random_crop gets for sample j.
CropArgs(g, j) ==
    [img |-> g.X[j], mask |-> g.Y[j],
     random_crop_size |-> <<g.crop_length, g.crop_length>>, val |-> g.val,
     prob_map |-> g.prob_map, draw_prob_map_points |-> FALSE,
     img_prob |-> IF g.train_prob # None THEN g.train_prob[j] ELSE None]

\* The outcomes of one iteration of the loop of __getitem__ for slot i and
\* sample j: the exception raised, or the values of the two slots and of
\* self.t_counter.
StepOutcomes(g, j) ==
    LET Fail(e) == [err |-> e]
        Fill(x, y, xs, ys, t) ==
            IF SlotOk(xs, g.dim) /\ SlotOk(ys, g.dim)
            THEN [err |-> "none", x |-> Slot(x, xs, g.dim), y |-> Slot(y, ys, g.dim),
                  t_counter |-> t]
            ELSE Fail("ValueError")
        Crops == {RandomCropReturn(CropArgs(g, j), o) : o \in RandomCropOutcomes(CropArgs(g, j))}
        Transformed(x, y) ==
            {ApplyTransform(g, x, y, FALSE, d) : d \in BranchDraws(g)}
    IN IF ~g.da
       THEN IF g.random_crops_in_DA
            THEN {IF r.err # "none" THEN Fail(r.err)
                  ELSE Fill(Sample(r.img), Sample(r.mask), r.shape, r.mask_shape, g.t_counter) :
                     r \in Crops}
            ELSE {Fill(Sample(g.X[j]), Sample(g.Y[j]), ShapeOf(g.X[j]), ShapeOf(g.Y[j]),
                       g.t_counter)}
       ELSE IF g.random_crops_in_DA
            THEN IF g.train_prob = None THEN {Fail("TypeError")}
                 ELSE UNION {
                     IF r.err # "none" THEN {Fail(r.err)}
                     ELSE IF ~(SlotOk(r.shape, g.dim) /\ SlotOk(r.mask_shape, g.dim))
                     THEN {Fail("ValueError")}
                     ELSE {Fill(tr.trans_image, tr.trans_mask, ShapeOf(tr.trans_image.px),
                                ShapeOf(tr.trans_mask.px), tr.t_counter) :
                              tr \in Transformed(Slot(Sample(r.img), r.shape, g.dim),
                                                 Slot(Sample(r.mask), r.mask_shape, g.dim))} :
                     r \in Crops}
            ELSE {Fill(tr.trans_image, tr.trans_mask, ShapeOf(tr.trans_image.px),
                       ShapeOf(tr.trans_mask.px), tr.t_counter) :
                     tr \in Transformed(Sample(g.X[j]), Sample(g.Y[j]))}

\* The data the generator is built on: n images of shape sh with distinct
\* pixels, masks with the values 0, 255 and 51.
GenX(n, sh) == [k \in 0..(n - 1) |-> [q \in MatDom(sh[1], sh[2]) |->
                   1 + k * sh[1] * sh[2] + q[1] * sh[2] + q[2]]]

GenY(n, sh) == [k \in 0..(n - 1) |-> [q \in MatDom(sh[1], sh[2]) |->
                   IF (k + q[1] + q[2]) % 3 = 0 THEN 0
                   ELSE IF (k + q[1] + q[2]) % 3 = 1 THEN 255 ELSE 51]]

GenShapes == {<<MaxGenDim, MaxGenDim>>, <<1, MaxGenDim>>}

\* The transformation options explored in the generator: everything
\* disabled, or elastic deformation at probability 1.
GenTransforms ==
    {[elastic |-> FALSE, e_prob |-> 0, vflip |-> FALSE],
     [elastic |-> TRUE, e_prob |-> 100, vflip |-> FALSE]}

\* The cropping options explored: random crops off with the defaults, or on
\* with every setting of train_prob, with val or else every setting of
\* prob_map (random_crop tests val first), and the crop length of the
\* image's shorter side (one window in a square image, several in a 1 x n
\* image).
GenCrops(n, sh) ==
    {[random_crops_in_DA |-> FALSE, crop_length |-> 0, prob_map |-> FALSE,
      train_prob |-> None, val |-> FALSE]}
    \cup {[random_crops_in_DA |-> TRUE, crop_length |-> Min(sh[1], sh[2]),
           prob_map |-> m.prob_map, train_prob |-> tp, val |-> m.val] :
             m \in {[val |-> TRUE, prob_map |-> FALSE], [val |-> FALSE, prob_map |-> FALSE],
                    [val |-> FALSE, prob_map |-> TRUE]},
             tp \in {None, [k \in 0..(n - 1) |-> [q \in MatDom(sh[1], sh[2]) |-> 1]]}}

\* The constructor arguments explored: one sample or MaxSamples of them,
\* batches of one sample or of MaxBatch; dim is the shape of the images.
GenArgs ==
    UNION {
        {[X |-> GenX(n, sh), Y |-> GenY(n, sh), batch_size |-> bs, dim |-> sh,
          shuffle |-> shf, da |-> da, e_prob |-> tr.e_prob, elastic |-> tr.elastic,
          vflip |-> tr.vflip, hflip |-> FALSE, rotation90 |-> FALSE, rotation_range |-> 0,
          brightness_range |-> <<1, 1>>, median_filter_size |-> <<0, 0>>,
          random_crops_in_DA |-> cr.random_crops_in_DA, crop_length |-> cr.crop_length,
          prob_map |-> cr.prob_map, train_prob |-> cr.train_prob, val |-> cr.val] :
             bs \in {1, MaxBatch}, shf \in BOOLEAN, da \in BOOLEAN, tr \in GenTransforms,
             cr \in GenCrops(n, sh)} :
        n \in {1, MaxSamples}, sh \in GenShapes}

\* The generator after __init__; cont counts the calls of __getitem__.
InitGenerator ==
    /\ pc = "gen_idle"
    /\ err = "none"
    /\ args \in GenArgs
    /\ self \in {Construct(args, idx) :
                    idx \in EpochIndexes(Cardinality(DOMAIN args.X), args.shuffle)}
    /\ ret = << >>
    /\ index = 0 /\ batch_x = << >> /\ batch_y = << >>
    /\ IdleTiling

\* __getitem__(index) up to its loop; ret holds the return of the last
\* call of __len__ until the next call begins.
GetItemCall ==
    /\ pc = "gen_idle"
    /\ cont < MaxCalls
    /\ \E b \in 0..(GenLen(self) - 1) :
          /\ index' = b
          /\ pc' = IF ZipLen(self, b) = 0 THEN "gen_return" ELSE "gen_loop"
    /\ batch_x' = [k \in 0..(self.batch_size - 1) |-> Uninit]
    /\ batch_y' = [k \in 0..(self.batch_size - 1) |-> Uninit]
    /\ it' = <<0, 0, 0>>
    /\ cont' = cont + 1
    /\ ret' = << >>
    /\ UNCHANGED <<err, args, self, data, data_mask, shape, cropped_data,
                   cropped_data_mask, ovVars, gridVars, gmVars>>

\* One iteration of the loop over zip(range(0, batch_size), indexes).
GetItemStep ==
    /\ pc = "gen_loop"
    /\ LET i == it[2]
           j == self.indexes[index * self.batch_size + i]
       IN \E o \in StepOutcomes(self, j) :
             IF o.err # "none"
             THEN /\ Raise("gen_error", o.err)
                  /\ UNCHANGED <<batch_x, batch_y, self, it>>
             ELSE /\ batch_x' = [batch_x EXCEPT ![i] = o.x]
                  /\ batch_y' = [batch_y EXCEPT ![i] = o.y]
                  /\ self' = [self EXCEPT !.t_counter = o.t_counter]
                  /\ it' = <<0, i + 1, 0>>
                  /\ err' = err
                  /\ pc' = IF i + 1 >= ZipLen(self, index) THEN "gen_return" ELSE "gen_loop"
    /\ UNCHANGED <<args, ret, index, cont, data, data_mask, shape, cropped_data,
                   cropped_data_mask, ovVars, gridVars, gmVars>>

\* return batch_x, batch_y: the batch of the state with pc = "gen_return"
\* is handed to the caller and the locals are gone.
GetItemReturn ==
    /\ pc = "gen_return"
    /\ batch_x' = << >>
    /\ batch_y' = << >>
    /\ index' = 0
    /\ it' = NoIter
    /\ pc' = "gen_idle"
    /\ UNCHANGED <<err, args, ret, self, cont, data, data_mask, shape, cropped_data,
                   cropped_data_mask, ovVars, gridVars, gmVars>>

\* on_epoch_end that also clears the transform counters.
OnEpochEnd_ResetsCounters ==
    /\ pc = "gen_idle"
    /\ \E idx \in EpochIndexes(Cardinality(DOMAIN self.X), self.shuffle) :
          self' = [self EXCEPT !.indexes = idx, !.t_counter = <<0, 0, 0, 0, 0, 0>>]
    /\ ret' = << >>
    /\ UNCHANGED <<pc, err, args, index, batch_x, batch_y, cont, it, data, data_mask,
                   shape, cropped_data, cropped_data_mask, ovVars, gridVars, gmVars>>

\* on_epoch_end; it returns nothing.
OnEpochEnd ==
    /\ pc = "gen_idle"
    /\ \E idx \in EpochIndexes(Cardinality(DOMAIN self.X), self.shuffle) :
          self' = [self EXCEPT !.indexes = idx]
    /\ ret' = << >>
    /\ UNCHANGED <<pc, err, args, index, batch_x, batch_y, cont, it, data, data_mask,
                   shape, cropped_data, cropped_data_mask, ovVars, gridVars, gmVars>>

\* __len__: the number of batches is returned; nothing is written.
LenCall ==
    /\ pc = "gen_idle"
    /\ ret' = <<GenLen(self)>>
    /\ UNCHANGED <<pc, err, args, self, index, batch_x, batch_y, cont, it, data, data_mask,
                   shape, cropped_data, cropped_data_mask, ovVars, gridVars, gmVars>>

NextGenerator ==
    \/ LenCall
    \/ GetItemCall
    \/ GetItemStep
    \/ GetItemReturn
    \/ OnEpochEnd

SpecGenerator == InitGenerator /\ [][NextGenerator]_vars

(***************************************************************************)
(* __foreground_percentage called alone on a 2D mask tile.  The tile is    *)
(* [shape |-> <<mask.shape[0], mask.shape[1]>>, val |-> pixels].           *)
(***************************************************************************)
\* The 4x4 tile [[1,1,0,0],[1,1,0,0],[0,0,0,0],[0,0,0,0]].
Block4 ==
    [shape |-> <<4, 4>>,
     val   |-> [p \in MatDom(4, 4) |-> IF p[1] < 2 /\ p[2] < 2 THEN 1 ELSE 0]]

TileValues == {0, 1, 255}

ClassTags == {0, 1, 2, 255}

\* Mask tiles of every shape up to MaxTile x MaxTile, empty ones included.
Tiles ==
    {Block4} \cup
    UNION { { [shape |-> sh, val |-> v] : v \in [MatDom(sh[1], sh[2]) -> TileValues] }
            : sh \in (0..MaxTile) \X (0..MaxTile) }

\* The return of __foreground_percentage(mask, class_tag): the fraction, or
\* ZeroDivisionError for a tile without pixels.
ForegroundReturn(a) ==
    LET p == foreground_percentage(a.mask, a.class_tag)
    IN IF p[2] = 0
       THEN [err |-> "ZeroDivisionError", value |-> None]
       ELSE [err |-> "none", value |-> p]

InitForeground ==
    /\ pc = "fg_call"
    /\ err = "none"
    /\ args \in [mask : Tiles, class_tag : ClassTags]
    /\ ret = << >>
    /\ self = << >> /\ index = 0 /\ batch_x = << >> /\ batch_y = << >>
    /\ IdleTiling

\* One call of __foreground_percentage; the function only reads mask.
ForegroundCall ==
    /\ pc = "fg_call"
    /\ LET r == ForegroundReturn(args)
       IN /\ ret' = r
          /\ err' = r.err
    /\ pc' = "fg_done"
    /\ UNCHANGED <<args, self, index, batch_x, batch_y, data, data_mask, shape,
                   cropped_data, cropped_data_mask, cont, it, ovVars, gridVars, gmVars>>

NextForeground == ForegroundCall

SpecForeground == InitForeground /\ [][NextForeground]_vars

(***************************************************************************)
(* Properties of the overlap tiler and merger (checked under SpecOverlap). *)
(***************************************************************************)
MergedEqualsData == \A p \in DOMAIN data : merged_data[p] = <<data[p], 1>>

OverlapAccumulated == pc \in {"merge_border", "merge_loop", "merge_finish", "merge_done"}

C2_RoundTripOverlap ==
    subdivision > 1 =>
        /\ err \in {"none", "AssertionError"}
        /\ pc = "merge_done" => MergedEqualsData

\* C3: for arguments that pass all the checks the tiling loops complete
\* without error and write exactly data.shape[0] * subdivision tiles.
C3_TileCount ==
    /\ pc = "ov_crop_error" => err = "AssertionError"
    /\ pc = "ov_crop_done" => cont = shape[1] * subdivision

Divisors(sub) == {r \in 1..(sub \div 2) : sub % r = 0}

BestRows(sub) ==
    CHOOSE r \in Divisors(sub) :
        \A q \in Divisors(sub) :
            \/ Abs((sub \div q) - q) > Abs((sub \div r) - r)
            \/ (Abs((sub \div q) - q) = Abs((sub \div r) - r) /\ q >= r)

Rejected ==
    \/ (subdivision % 2 = 1 /\ subdivision # 1)
    \/ window_size > shape[2]
    \/ window_size > shape[3]
    \/ /\ subdivision # 1
       /\ subdivision % 2 = 0
       /\ \/ window_size * BestRows(subdivision) < shape[2]
          \/ window_size * (subdivision \div BestRows(subdivision)) < shape[3]

\* C5: the tiler raises the configuration error exactly when subdivision is
\* odd and not 1, or window_size exceeds a dimension, or (subdivision # 1 and
\* window_size*rows or window_size*columns falls short of the dimension), and
\* it raises it before any tile is written.
C5_ConfigurationErrors ==
    pc # "ov_call" =>
        /\ err = "AssertionError" <=> Rejected
        /\ err = "AssertionError" =>
              /\ pc = "ov_crop_error" /\ cont = 0
              /\ cropped_data \in {Empty, ZeroTiles(shape[1] * subdivision, window_size)}
              /\ cropped_data_mask \in {Empty, ZeroTiles(shape[1] * subdivision, window_size)}

C5_Witness ==
    /\ err = "AssertionError"
    /\ subdivision % 2 = 0 /\ window_size <= shape[2] /\ window_size <= shape[3]
    /\ window_size * geo.columns < shape[3]

LayoutIsBest(g) ==
    /\ subdivision = 1 => (g.rows = 1 /\ g.columns = 1)
    /\ subdivision % 2 = 0 =>
          /\ g.rows * g.columns = subdivision
          /\ g.rows \in 1..(subdivision \div 2)
          /\ \A r \in Divisors(subdivision) :
                \/ Abs((subdivision \div r) - r) > Abs(g.columns - g.rows)
                \/ (Abs((subdivision \div r) - r) = Abs(g.columns - g.rows) /\ r >= g.rows)

\* C6: the layout found by the search loop of the tiler and of the merger is
\* (1, 1) for subdivision = 1; for even subdivision rows*columns =
\* subdivision, no factor pair with rows in 1..subdivision/2 has a smaller
\* |columns - rows|, and of the pairs with the least one the smallest rows
\* is taken.
C6_Factorization ==
    /\ geo.rows # 0 => LayoutIsBest(geo)
    /\ m_geo.rows # 0 => LayoutIsBest(m_geo)

C6_Witness ==
    /\ subdivision = 6 /\ geo.rows = 2 /\ geo.columns = 3
    /\ m_geo.rows = 2 /\ m_geo.columns = 3

(***************************************************************************)
(* Properties of the grid cropper (checked under SpecGrid).                *)
(***************************************************************************)
NumEmitted == NumTilesIn(cropped_data)

TotalTiles == shape[1] * h_num * v_num

\* The loop position <<img_num, i, j>> that produces tile number c.
TilePosition(c) ==
    <<c \div (h_num * v_num), (c % (h_num * v_num)) \div v_num, c % v_num>>

TileRegion(c) ==
    GridRegion(crop_shape, RShape(shape, crop_shape, h_num, v_num), TilePosition(c))

\* Tile number c of a padded volume.
ProducedTile(vol, c) == GridTile(vol, crop_shape, TilePosition(c)[1], TileRegion(c))

\* The foreground ratio of tile c is strictly greater than d_percentage.
RatioAbove(c) ==
    LET m == View(r_data_mask, TilePosition(c)[1], TileRegion(c))
    IN Cardinality({p \in DOMAIN m.val : m.val[p] = 1}) * 100
          > d_percentage * Cardinality(DOMAIN m.val)

RatioAtThreshold(c) ==
    LET m == View(r_data_mask, TilePosition(c)[1], TileRegion(c))
    IN /\ DOMAIN m.val # {}
       /\ Cardinality({p \in DOMAIN m.val : m.val[p] = 1}) * 100
             = d_percentage * Cardinality(DOMAIN m.val)

KeptNumbers == {c \in 0..(TotalTiles - 1) : RatioAbove(c)}

\* The k-th kept tile number in production order (k from 0).
KthKept(k) == CHOOSE c \in KeptNumbers : Cardinality({b \in KeptNumbers : b < c}) = k

SquareUnforced == crop_shape[1] = crop_shape[2] /\ force_shape = <<0, 0>>

\* C7: with a discard threshold and a mask, output slot k holds the k-th
\* tile, in production order, whose foreground ratio exceeds the threshold
\* (image and mask alike).
C7_KeptTilesInOrder ==
    (pc = "crop_done" /\ Discarding /\ SquareUnforced) =>
        \A k \in DOMAIN cropped_data :
            /\ cropped_data[k] = ProducedTile(r_data, KthKept(k))
            /\ cropped_data_mask[k] = ProducedTile(r_data_mask, KthKept(k))

ImageTiles(n) == {c \in 0..(TotalTiles - 1) : TilePosition(c)[1] = n}

NothingKept(n) == \A c \in ImageTiles(n) : ~RatioAbove(c)

\* C9: when every prospective tile of an image is at or below the threshold
\* crop_data completes and the image contributes no tile; when this holds
\* for every image the output has no tile.
C9_ZeroKeptTiles ==
    (Discarding /\ SquareUnforced /\ pc \in {"crop_loop", "crop_error", "crop_done"}) =>
        /\ (\A n \in 0..(shape[1] - 1) : NothingKept(n)) =>
              /\ pc # "crop_error"
              /\ pc = "crop_done" => NumEmitted = 0
        /\ pc = "crop_done" =>
              \A n \in 0..(shape[1] - 1) : NothingKept(n) =>
                  \A k \in DOMAIN cropped_data : \A c \in ImageTiles(n) :
                      cropped_data[k] # ProducedTile(r_data, c)

\* The zero padded volume of the claim: V inside the original volume, 0
\* outside.
PaddedValue(n, y, x) ==
    IF y < shape[2] /\ x < shape[3] THEN data[<<n, y, x>>] ELSE 0

\* C10: without discarding, for tile size (tw, th) = crop_shape the output
\* has N*rows*cols tiles and tile n*rows*cols + i*cols + j holds at (r, c)
\* the value V[n, i*th + r, j*tw + c] of the zero padded volume.
C10_GridTiles ==
    (~Discarding /\ force_shape = <<0, 0>> /\ pc \in {"crop_error", "crop_done"}) =>
        /\ pc # "crop_error"
        /\ NumEmitted = TotalTiles
        /\ \A n \in 0..(shape[1] - 1), i \in 0..(h_num - 1), j \in 0..(v_num - 1) :
              \A q \in MatDom(crop_shape[2], crop_shape[1]) :
                  cropped_data[n * h_num * v_num + i * v_num + j][q]
                      = PaddedValue(n, i * crop_shape[2] + q[1], j * crop_shape[1] + q[2])

\* C11: without a forced layout, for tile size (tw, th) = crop_shape, the
\* layout is rows = ceil(H/th), cols = ceil(W/tw): the tiles cover the
\* image (rows*th >= H, cols*tw >= W) with no wasted full extra tile
\* (rows*th - th < H, cols*tw - tw < W), square tile or not.
C11_GridLayoutCovers ==
    (pc # "crop_call" /\ force_shape = <<0, 0>>) =>
        LET tw == crop_shape[1]
            th == crop_shape[2]
        IN /\ h_num = CeilDiv(shape[2], th)
           /\ v_num = CeilDiv(shape[3], tw)
           /\ h_num * th >= shape[2] /\ v_num * tw >= shape[3]
           /\ h_num * th - th < shape[2] /\ v_num * tw - tw < shape[3]

\* The call of the grid merger the claim is about: square tiles, nothing
\* discarded, num = N, out_shape = (cols, rows), grid = False.
InverseMergeCall ==
    /\ crop_shape[1] = crop_shape[2] /\ ~Discarding
    /\ num = shape[1] /\ out_shape = <<v_num, h_num>> /\ ~grid

\* C12: for square tiles and no discarding, merge_data_without_overlap on
\* the tiles of crop_data(V) with num = N, out_shape = (cols, rows) and
\* grid = False completes and returns the zero padded volume of crop_data:
\* V in the low-index region and 0 in the padding.
C12_GridMergeInvertsCrop ==
    (pc \in {"gm_done", "gm_error"} /\ InverseMergeCall) =>
        /\ pc = "gm_done"
        /\ mixed_data = r_data
        /\ \A p \in DOMAIN mixed_data : mixed_data[p] = PaddedValue(p[1], p[2], p[3])

C12_Witness ==
    /\ pc = "gm_done" /\ InverseMergeCall /\ force_shape = <<0, 0>>
    /\ shape[1] > 1 /\ h_num > 1 /\ v_num > 1 /\ crop_shape[1] > 1
    /\ DOMAIN r_data # DOMAIN data

(***************************************************************************)
(* Properties of random_crop (checked under SpecRandomCrop).               *)
(***************************************************************************)
ImgShape == ShapeOf(args.img)

CropFits ==
    /\ args.random_crop_size[1] <= ImgShape[1]
    /\ args.random_crop_size[2] <= ImgShape[2]

\* The calls that returned.
Returned == {k \in DOMAIN ret : ret[k].err = "none"}

\* The window of m of the full crop size cut at origin (y, x).
FullWindow(m, y, x) ==
    [p \in MatDom(args.random_crop_size[1], args.random_crop_size[2]) |->
        m[<<y + p[1], x + p[2]>>]]

\* The crop of return r lies within the image and has the full crop size.
WithinImage(r) ==
    /\ 0 <= r.y /\ r.y + args.random_crop_size[1] <= ImgShape[1]
    /\ 0 <= r.x /\ r.x + args.random_crop_size[2] <= ImgShape[2]
    /\ r.shape = args.random_crop_size /\ r.mask_shape = args.random_crop_size

\* C13: in probability-map mode, for every sampled point (ox, oy) and every
\* crop size not larger than the image, the crop stays within the image
\* with the full crop size and the sampled point lies inside the crop.
C13_ProbMapCropInBounds ==
    (pc \in {"rc_call", "rc_done"} /\ ~args.val /\ args.prob_map /\ CropFits) =>
        \A k \in Returned :
            /\ WithinImage(ret[k])
            /\ ret[k].y <= ret[k].oy /\ ret[k].oy < ret[k].y + args.random_crop_size[1]
            /\ ret[k].x <= ret[k].ox /\ ret[k].ox < ret[k].x + args.random_crop_size[2]

UniformMode ==
    /\ pc \in {"rc_call", "rc_done"}
    /\ ~args.val /\ ~args.prob_map /\ ~args.draw_prob_map_points /\ CropFits

\* C14: in uniform mode, for a crop size not larger than the image, every
\* call returns, its origin lies in [0, W - crop_w] x [0, H - crop_h], and
\* the image and mask windows have exactly the crop size and are cut at
\* that same origin.
C14_UniformOriginInRange ==
    UniformMode =>
        \A k \in DOMAIN ret :
            /\ ret[k].err = "none"
            /\ ret[k].x \in 0..(ImgShape[2] - args.random_crop_size[2])
            /\ ret[k].y \in 0..(ImgShape[1] - args.random_crop_size[1])
            /\ WithinImage(ret[k])
            /\ ret[k].img = FullWindow(args.img, ret[k].y, ret[k].x)
            /\ ret[k].mask = FullWindow(args.mask, ret[k].y, ret[k].x)

\* Both ends of both ranges are returned, in either combination.
C14_Witness ==
    /\ UniformMode /\ Len(ret) = 2
    /\ ImgShape[1] > args.random_crop_size[1] /\ ImgShape[2] > args.random_crop_size[2]
    /\ ret[1].y = 0 /\ ret[1].x = ImgShape[2] - args.random_crop_size[2]
    /\ ret[2].y = ImgShape[1] - args.random_crop_size[1] /\ ret[2].x = 0

\* C15: with val = True the origin is (0, 0) whatever prob_map and img_prob
\* are, and two calls on the same image and mask return identical image
\* and mask windows.
C15_ValidationDeterministic ==
    (pc \in {"rc_call", "rc_done"} /\ args.val /\ ~args.draw_prob_map_points) =>
        /\ \A k \in DOMAIN ret :
              /\ ret[k].err = "none"
              /\ ret[k].x = 0 /\ ret[k].y = 0
              /\ CropFits => /\ ret[k].img = FullWindow(args.img, 0, 0)
                             /\ ret[k].mask = FullWindow(args.mask, 0, 0)
        /\ \A k \in DOMAIN ret : \A l \in DOMAIN ret :
              ret[k].img = ret[l].img /\ ret[k].mask = ret[l].mask

C15_Witness ==
    /\ pc = "rc_done" /\ args.val /\ ~args.draw_prob_map_points /\ Len(ret) = 2
    /\ args.prob_map /\ args.img_prob # None /\ SampledPoints(args.img_prob) # {}
    /\ ImgShape[1] > args.random_crop_size[1] /\ ImgShape[2] > args.random_crop_size[2]

(***************************************************************************)
(* Properties of apply_transform (checked under SpecTransform).            *)
(***************************************************************************)
Tagged(tag) == \E k \in DOMAIN ret[1].transform_string : ret[1].transform_string[k] = tag

\* The pixels the flips and the quarter rotations of the last call acted on:
\* the input, with the grid drawn on it when the elastic step ran with grid.
Deformed ==
    IF args.grid /\ Tagged("_e") THEN draw_grid(args.image.px, 255) ELSE args.image.px

\* C16: for every flip draw and every setting of the flags at most one of
\* the outcomes vertical-only, horizontal-only, both fires, and the sample
\* is flipped vertically (and the vertical-flip counter incremented) only
\* if vflip is enabled, horizontally (and the horizontal-flip counter
\* incremented) only if hflip is enabled.
C16_FlipRespectsFlags ==
    (pc = "at_call" /\ cont > 0) =>
        /\ Cardinality({tag \in {"_vf", "_hf", "_hfvf"} : Tagged(tag)}) <= 1
        /\ (Tagged("_vf") \/ Tagged("_hfvf")) => self.vflip
        /\ (Tagged("_hf") \/ Tagged("_hfvf")) => self.hflip
        /\ self.t_counter[2] > 0 => self.vflip
        /\ self.t_counter[3] > 0 => self.hflip
        /\ (~self.rotation90 /\ ~self.vflip) =>
              ret[1].trans_image.px \in {Deformed, FlipH(Deformed)}
        /\ (~self.rotation90 /\ ~self.hflip) =>
              ret[1].trans_image.px \in {Deformed, FlipV(Deformed)}

\* Elastic deformation enabled at probability 1 and every other step
\* disabled.
ElasticOnly ==
    /\ self.elastic /\ self.e_prob = 100
    /\ ~self.vflip /\ ~self.hflip /\ ~self.rotation90
    /\ self.rotation_range = 0 /\ self.brightness_range = <<1, 1>>
    /\ self.median_filter_size = <<0, 0>>

\* C17: on a fresh generator with elastic deformation at probability 1 and
\* every other step disabled, after K calls of apply_transform the elastic
\* counter is K and the five other counters are 0, whatever the draws.
C17_ElasticCounter ==
    (pc = "at_call" /\ ElasticOnly) => self.t_counter = <<cont, 0, 0, 0, 0, 0>>

C17_Witness ==
    /\ pc = "at_call" /\ ElasticOnly /\ cont = MaxCalls
    /\ self.t_counter[1] = MaxCalls
    /\ ret[1].transform_string = <<"_e">>

(***************************************************************************)
(* Properties of the batch generator (checked under SpecGenerator).        *)
(***************************************************************************)
\* A call of __getitem__ with a batch index in [0, __len__) is under way,
\* has raised, or is about to return.
InBatch ==
    /\ pc \in {"gen_loop", "gen_return", "gen_error"}
    /\ index < GenLen(self)

Filled(b) == \A k \in 0..(self.batch_size - 1) : b[k] # Uninit

\* C18: __len__ is floor(N / batch_size), and for every batch index in
\* [0, __len__) and every setting of da, random_crops_in_DA, prob_map and
\* train_prob, __getitem__ completes and fills all batch_size slots of
\* batch_x and batch_y.
C18_BatchSizeContract ==
    /\ pc \in {"gen_idle", "gen_loop", "gen_return", "gen_error"} =>
          GenLen(self) = Cardinality(DOMAIN args.X) \div args.batch_size
    /\ InBatch =>
          /\ pc # "gen_error"
          /\ pc = "gen_return" => Filled(batch_x) /\ Filled(batch_y)

PassThrough == ~self.da /\ ~self.random_crops_in_DA

\* C19: with da = False and random_crops_in_DA = False, __getitem__(index)
\* returns for the j-th entry of the permutation slice the stored image
\* X[j] and the supplied mask Y[j] divided by 255, untransformed, and no
\* transform counter changes; without shuffling batch b holds the samples
\* b*batch_size .. (b+1)*batch_size - 1 in order, in every epoch.
C19_PassThrough ==
    (InBatch /\ PassThrough) =>
        /\ pc # "gen_error"
        /\ self.t_counter = <<0, 0, 0, 0, 0, 0>>
        /\ pc = "gen_return" =>
              \A k \in 0..(self.batch_size - 1) :
                  LET j == self.indexes[index * self.batch_size + k]
                  IN /\ batch_x[k] = [px |-> args.X[j], ops |-> << >>]
                     /\ batch_y[k] = [px |-> [q \in DOMAIN args.Y[j] |->
                                                 TrueDivide(args.Y[j][q], 255)],
                                      ops |-> << >>]
                     /\ ~self.shuffle => j = index * self.batch_size + k

C19_Witness ==
    /\ pc = "gen_return" /\ InBatch /\ PassThrough /\ ~self.shuffle
    /\ index = 1 /\ cont = 2 /\ self.batch_size = 1 /\ self.elastic
    /\ batch_x[0].px = args.X[1]
    /\ \E q \in DOMAIN args.Y[1] : args.Y[1][q] = 51 /\ batch_y[0].px[q] = <<1, 5>>

\* The number of pixels of the tile equal to the class value.
ClassPixels == {p \in MatDom(args.mask.shape[1], args.mask.shape[2]) :
                   args.mask.val[p] = args.class_tag}

FgReturned == pc = "fg_done" /\ err = "none"

Accepted ==
    \/ pc \in {"ov_crop_loop", "ov_crop_done"}
    \/ pc = "ov_crop_error" /\ err # "AssertionError"

\* Tile number t of k along an axis of length dim starts at t*step, the
\* last one at dim - ws, and the slice start:start+len read from the axis is
\* exactly that window of ws indices.
PlacedAt(start, len, t, k, step, dim) ==
    /\ start = (IF t < k - 1 THEN t * step ELSE dim - window_size)
    /\ len = window_size
    /\ 0 <= start /\ start + len <= dim
    /\ t = k - 1 => start + len = dim

\* C21: for every input crop_data_with_overlap accepts, along each axis
\* with k tiles the loops visit exactly k origins, tile t < k-1 is cut at
\* t*step and the last tile at dim - window_size, and every tile spans
\* window_size consecutive indexes inside [0, dim), the last one ending at
\* dim.
C21_TilePlacement ==
    Accepted =>
        /\ pc # "ov_crop_error"
        /\ Cardinality(Range(shape[2] - geo.y_ov, geo.step_y)) = geo.rows
        /\ Cardinality(Range(shape[3] - geo.x_ov, geo.step_x)) = geo.columns
        /\ \A t \in CropIters(shape, geo) :
              LET reg == CropRegion(shape, window_size, geo, t)
              IN /\ PlacedAt(reg.y0, reg.ly, t[2] \div geo.step_y, geo.rows,
                             geo.step_y, shape[2])
                 /\ PlacedAt(reg.x0, reg.lx, t[3] \div geo.step_x, geo.columns,
                             geo.step_x, shape[3])

\* The number of iterations of the loops S that come before iteration t.
Position(t, S) == Cardinality({u \in S : Before(u, t)})

Merging == pc \in {"merge_ovmat", "merge_border", "merge_loop", "merge_finish", "merge_done"}

\* C22: for every (H, W, window_size, subdivision), merge_data_with_overlap
\* with original_shape = (W, H) computes the rows, columns, overlaps,
\* remainders and steps crop_data_with_overlap computes, and its loops
\* enumerate the same tile regions in the same order, so that tile number
\* cont is added back at the region it was cut from.
C22_SameGeometry ==
    LET os == <<shape[3], shape[2]>>
    IN /\ window_size > 0 =>
             MergeGeometry(os, window_size, MergeFindLayout(subdivision))
                = CropGeometry(shape, window_size, FindLayout(subdivision))
       /\ pc = "ov_crop_loop" => cont = Position(it, CropIters(shape, geo))
       /\ Merging =>
             /\ original_shape = os
             /\ m_geo = geo
             /\ MergeIters(total_images, original_shape, m_geo) = CropIters(shape, geo)
             /\ \A t \in CropIters(shape, geo) :
                   MergeRegion(original_shape, window_size, m_geo, t)
                      = CropRegion(shape, window_size, geo, t)
       /\ pc = "merge_loop" =>
             cont = Position(it, MergeIters(total_images, original_shape, m_geo))

\* The last tile of a row of a non-square image is merged with its
\* remainder shift.
C22_Witness ==
    /\ pc = "merge_loop" /\ cont > 0
    /\ shape[2] # shape[3]
    /\ m_geo.r_x > 0 /\ m_geo.r_x < m_geo.step_x
    /\ MergeOffsets(original_shape, window_size, m_geo, it).d_x > 0

(***************************************************************************)
(* Properties of merge_data_without_overlap (checked under SpecGrid).      *)
(***************************************************************************)
\* The number of cell u = <<img_num, i, j>> counting mosaic by mosaic, row
\* by row and column by column.
CellNumber(u) == (u[1] * out_shape[2] + u[2]) * out_shape[1] + u[3]

\* The cells whose tile has been pasted.
PastedCells == {u \in MergeWoIters(num, out_shape) : CellNumber(u) < cont}

\* The rectangle of cell u in the canvas: width rows and height columns.
CellRows(u) == (u[2] * width)..((u[2] + 1) * width - 1)

CellCols(u) == (u[3] * height)..((u[3] + 1) * height - 1)

OnPerimeter(u, y, x) ==
    \/ y = u[2] * width \/ y = (u[2] + 1) * width - 1
    \/ x = u[3] * height \/ x = (u[3] + 1) * height - 1

\* C23: with grid = True, once merge_data_without_overlap has pasted a
\* tile, every pixel on the 1-pixel perimeter of the tile's rectangle in
\* the canvas, the four corners included, holds the border value (255 when
\* the maximum of the input exceeds 1, else 1) and every interior pixel
\* holds the tile's value.
C23_GridBorder ==
    (pc \in {"gm_loop", "gm_done"} /\ grid) =>
        \A u \in PastedCells : \A y \in CellRows(u), x \in CellCols(u) :
            mixed_data[<<u[1], y, x>>] =
                IF OnPerimeter(u, y, x) THEN GridValue(cropped_data)
                ELSE cropped_data[CellNumber(u)]
                                 [<<y - u[2] * width, x - u[3] * height>>]

InMergeWo == pc \in {"gm_loop", "gm_done"}

\* The cells of the mosaics no tile was pasted into.
EmptyCells == MergeWoIters(num, out_shape) \ PastedCells

\* C24: for every num and out_shape, merge_data_without_overlap pastes
\* source tile number cont into cell number cont of the order mosaic, row,
\* column, never reads a tile index >= the number of source tiles, stops
\* once all source tiles are pasted, and leaves the cells of a partially
\* filled mosaic and of all later mosaics at 0.
C24_EarlyStop ==
    InMergeWo =>
          /\ cont <= NumTilesIn(cropped_data)
          /\ pc = "gm_loop" => cont = CellNumber(it)
          /\ pc = "gm_done" =>
                cont = Min(NumTilesIn(cropped_data),
                           Cardinality(MergeWoIters(num, out_shape)))
          /\ \A u \in EmptyCells : \A y \in CellRows(u), x \in CellCols(u) :
                mixed_data[<<u[1], y, x>>] = 0
          /\ ~grid =>
                \A u \in PastedCells : \A y \in CellRows(u), x \in CellCols(u) :
                    mixed_data[<<u[1], y, x>>] =
                        cropped_data[CellNumber(u)]
                                    [<<y - u[2] * width, x - u[3] * height>>]

\* All the tiles crop_data kept are pasted, the first mosaic is partially
\* filled and a later mosaic is empty.
C24_Witness ==
    /\ pc = "gm_done" /\ cont = NumTilesIn(cropped_data)
    /\ \E u \in PastedCells, e1 \in EmptyCells, e2 \in EmptyCells :
          /\ e1[1] = u[1] /\ e2[1] > u[1]
          /\ \E y \in CellRows(u), x \in CellCols(u) : mixed_data[<<u[1], y, x>>] # 0

(***************************************************************************)
(* Properties of the transform record (checked under SpecTransform and     *)
(* SpecGenerator).                                                         *)
(***************************************************************************)
\* The tags of the description string apply_transform returned.
TagsOf(str) == {str[k] : k \in DOMAIN str} \ {"_none"}

\* The positions of t_counter that count the step with the given tag.
CountersOf(tag) ==
    IF tag = "_e" THEN {1}
    ELSE IF tag = "_vf" THEN {2}
    ELSE IF tag = "_hf" THEN {3}
    ELSE IF tag = "_hfvf" THEN {2, 3}
    ELSE IF tag = "_r90" THEN {4}
    ELSE IF tag = "_r180" THEN {5}
    ELSE IF tag = "_r270" THEN {6}
    ELSE {}

\* The steps a tag stands for: "_hfvf" is a vertical and a horizontal flip.
StepsOf(tag) == IF tag = "_hfvf" THEN 2 ELSE 1

RECURSIVE SumSteps(_)
SumSteps(tags) ==
    IF tags = {} THEN 0
    ELSE LET tag == CHOOSE x \in tags : TRUE
         IN StepsOf(tag) + SumSteps(tags \ {tag})

Total(t) == t[1] + t[2] + t[3] + t[4] + t[5] + t[6]

\* C25: in every call of apply_transform every step that is applied
\* (elastic, flip, free rotation, quarter rotation, brightness, median
\* filter) appends its tag and adds one to a counter of its own type: the
\* counters of elastic, the flips and the quarter rotations grow by the
\* number of their tags, and the counters grow in total by the number of
\* steps applied.
C25_EveryStepCounted ==
    [][cont' = cont + 1 =>
          LET tags == TagsOf(ret'[1].transform_string)
          IN /\ \A k \in 1..6 :
                   self'.t_counter[k] - self.t_counter[k]
                      = Cardinality({tag \in tags : k \in CountersOf(tag)})
             /\ Total(self'.t_counter) - Total(self.t_counter) = SumSteps(tags)]_vars

\* The quarter rotations the last call applied.
QuarterTags == {tag \in {"_r90", "_r180", "_r270"} : Tagged(tag)}

\* The image turned by 180 degrees.
HalfTurn(m) ==
    LET sh == ShapeOf(m) IN [p \in DOMAIN m |-> m[<<sh[1] - 1 - p[1], sh[2] - 1 - p[2]>>]]

NoFlips == ~self.vflip /\ ~self.hflip

\* C26: with rotation90 enabled, a generator built on non-square images
\* without random crops never applies the 90 or the 270 degree rotation
\* (their counters stay 0), applies only the 180 degree rotation, and
\* returns image and mask with the input's height and width; on square
\* images one draw selects at most one of 90, 180 and 270.
C26_QuarterRotations ==
    (pc = "at_call" /\ cont > 0 /\ self.rotation90) =>
        LET sh == ShapeOf(args.image.px)
        IN /\ Cardinality(QuarterTags) <= 1
           /\ self.t_counter[4] + self.t_counter[5] + self.t_counter[6] <= cont
           /\ sh[1] # sh[2] =>
                 /\ self.t_counter[4] = 0 /\ self.t_counter[6] = 0
                 /\ QuarterTags \subseteq {"_r180"}
                 /\ ShapeOf(ret[1].trans_image.px) = sh
                 /\ ShapeOf(ret[1].trans_mask.px) = ShapeOf(args.mask.px)
                 /\ NoFlips =>
                       ret[1].trans_image.px =
                           IF Tagged("_r180") THEN HalfTurn(Deformed) ELSE Deformed

C26_Witness ==
    /\ pc = "at_call" /\ cont = MaxCalls /\ self.rotation90 /\ NoFlips
    /\ ShapeOf(args.image.px) = <<1, 2>>
    /\ self.t_counter[5] = 1
    /\ Tagged("_r180")
    /\ ret[1].trans_image.px = HalfTurn(args.image.px)

(***************************************************************************)
(* Properties of the generator's bookkeeping (checked under SpecGenerator). *)
(***************************************************************************)
NumSamples == Cardinality(DOMAIN self.X)

IsPermutation(f, n) ==
    /\ DOMAIN f = 0..(n - 1)
    /\ {f[k] : k \in DOMAIN f} = 0..(n - 1)

\* self.indexes is a permutation of 0..N-1, and the identity order when
\* shuffle is disabled.
IndexesPermutation ==
    /\ IsPermutation(self.indexes, NumSamples)
    /\ ~self.shuffle => \A k \in 0..(NumSamples - 1) : self.indexes[k] = k

\* C27: self.indexes is a permutation of 0..N-1 after construction and after
\* every step (the identity when shuffle is disabled), and a step that
\* changes it is a call of on_epoch_end: __getitem__ and __len__ leave it
\* unchanged.
C27_OnlyEpochEndReorders ==
    /\ IndexesPermutation
    /\ [][/\ IndexesPermutation'
          /\ self'.indexes # self.indexes => (pc = "gen_idle" /\ pc' = "gen_idle" /\ OnEpochEnd)
          /\ (LenCall \/ GetItemCall \/ GetItemStep \/ GetItemReturn) =>
                self'.indexes = self.indexes]_vars

\* A shuffled order other than the identity is in place when __len__
\* returns after a batch was produced.
C27_Witness ==
    /\ pc = "gen_idle" /\ self.shuffle /\ NumSamples = MaxSamples
    /\ self.indexes # Arange(NumSamples)
    /\ IsPermutation(self.indexes, NumSamples)
    /\ cont > 0
    /\ ret = <<GenLen(self)>>

\* C28: the six transform counters are all 0 after construction, no step of
\* __getitem__ (with its calls of apply_transform), __len__ or on_epoch_end
\* decreases one of them, and they change only inside the loop of
\* __getitem__: on_epoch_end and __len__ leave all of them unchanged.
C28_CountersMonotone ==
    /\ self.t_counter = <<0, 0, 0, 0, 0, 0>>
    /\ [][/\ \A k \in 1..6 : self'.t_counter[k] >= self.t_counter[k]
          /\ pc # "gen_loop" => self'.t_counter = self.t_counter]_vars

\* Counts of two calls of __getitem__ are still there after the second.
C28_Witness ==
    /\ pc = "gen_idle" /\ cont = MaxCalls /\ self.batch_size = 1
    /\ self.t_counter[1] = MaxCalls
    /\ ret = <<GenLen(self)>>

BatchSamples(g, b) == {g.indexes[k] : k \in BatchPositions(g, b)}

\* The batches 0 .. __len__ - 1 of g have batch_size samples each, no two
\* share a sample, and the samples in no batch are the n mod batch_size
\* last entries of the index array.
EpochPartition(g) ==
    LET n == Cardinality(DOMAIN g.indexes)
        batches == 0..((n \div g.batch_size) - 1)
        used == UNION {BatchSamples(g, b) : b \in batches}
    IN /\ \A b \in batches : Cardinality(BatchSamples(g, b)) = g.batch_size
       /\ \A b1, b2 \in batches : b1 # b2 => BatchSamples(g, b1) \cap BatchSamples(g, b2) = {}
       /\ (0..(n - 1)) \ used = {g.indexes[k] : k \in (n - (n % g.batch_size))..(n - 1)}
       /\ Cardinality((0..(n - 1)) \ used) = n % g.batch_size

\* Index arrays of up to MaxEpoch samples in their initial order and in
\* reverse, with every batch size.
MaxEpoch == 5

Epochs ==
    UNION {{[indexes |-> Arange(n), batch_size |-> bs],
            [indexes |-> [k \in 0..(n - 1) |-> n - 1 - k], batch_size |-> bs]} :
              n \in 1..MaxEpoch, bs \in 1..MaxEpoch}

\* C30: between two calls of on_epoch_end the batches of the indices
\* 0 .. __len__ - 1 take pairwise disjoint sets of batch_size samples each,
\* the samples in no batch are exactly the N mod batch_size last entries of
\* the current permutation, and the sample every iteration of __getitem__
\* reads is one of its batch's.
C30_EpochPartition ==
    /\ \A g \in Epochs : EpochPartition(g)
    /\ [](/\ EpochPartition(self)
          /\ GenLen(self) = Cardinality(DOMAIN self.indexes) \div self.batch_size
          /\ pc = "gen_loop" =>
                /\ index \in 0..(GenLen(self) - 1)
                /\ self.indexes[index * self.batch_size + it[2]] \in BatchSamples(self, index)
          /\ (pc = "gen_return" /\ PassThrough) =>
                {batch_x[k].px : k \in DOMAIN batch_x} =
                    {self.X[j] : j \in BatchSamples(self, index)})

\* A batch of MaxBatch samples returned from a shuffled order that leaves
\* one sample out.
C30_Witness ==
    /\ pc = "gen_return" /\ PassThrough /\ self.shuffle
    /\ NumSamples = MaxSamples /\ self.batch_size = MaxBatch
    /\ NumSamples % self.batch_size = 1
    /\ self.indexes # Arange(NumSamples)
    /\ {batch_x[k].px : k \in DOMAIN batch_x} = {self.X[j] : j \in BatchSamples(self, 0)}
    /\ BatchSamples(self, 0) = (0..(NumSamples - 1)) \ {self.indexes[NumSamples - 1]}

====
